---------------------------- MODULE Spec2Model ----------------------------
(***************************************************************************)
(* Model of the upwind flux evaluator of the 1D blood-flow network solver  *)
(* (FlowUpwindEvaluator, src/unnamed/part_004) together with the parts of  *)
(* the graph model, the partition and the DOF map it relies on.            *)
(*                                                                         *)
(* Doubles are modelled as fixed-point integers with unit Scale (the real  *)
(* value x is the integer x * Scale); the one non-finite value the code    *)
(* can produce or receive is the sentinel NaN, which compares unequal to   *)
(* everything, itself included.                                            *)
(***************************************************************************)
EXTENDS Integers, Sequences, FiniteSets, TLC

(***************************************************************************)
(* Bounds of the model.                                                    *)
(***************************************************************************)
MaxWorkers == 2
NumSol == 2
MaxT == 1

(***************************************************************************)
(* Fixed-point arithmetic.                                                 *)
(***************************************************************************)
Scale == 8 * 8

NaN == -1000000

IsNaN(x) == x = NaN

\* IEEE comparison a != b: true as soon as one side is not a number.
DoubleNeq(a, b) == IsNaN(a) \/ IsNaN(b) \/ a # b

Abs(x) == IF x < 0 THEN -x ELSE x

Neg(x) == IF IsNaN(x) THEN NaN ELSE -x

\* The quotient rounded towards zero: like the rounding of doubles, it
\* commutes with a change of sign of either operand.
Quot(n, d) ==
  CHOOSE q \in {IF (x < 0) = (y < 0) THEN Abs(x) \div Abs(y)
                ELSE -(Abs(x) \div Abs(y)) : x \in {n}, y \in {d}} : TRUE

Mul(x, y) == Quot(x * y, Scale)

Div(x, y) == Quot(x * Scale, y)

RECURSIVE SqrtSearch(_, _, _)
SqrtSearch(n, lo, hi) ==
  IF lo >= hi THEN lo
  ELSE LET mid == (lo + hi + 1) \div 2
       IN IF mid * mid <= n THEN SqrtSearch(n, mid, hi)
          ELSE SqrtSearch(n, lo, mid - 1)

\* The roots of 0..MaxSqrtTable, computed once, as a sequence.
MaxSqrtTable == 256 * Scale

RECURSIVE SqrtRange(_, _)
SqrtRange(lo, hi) ==
  IF lo = hi THEN <<SqrtSearch(lo, 0, lo)>>
  ELSE SqrtRange(lo, (lo + hi) \div 2) \o SqrtRange(((lo + hi) \div 2) + 1, hi)

SqrtTable == SqrtRange(0, MaxSqrtTable)

ISqrt(n) ==
  IF n <= MaxSqrtTable THEN SqrtTable[n + 1] ELSE SqrtSearch(n, 0, 46340)

\* std::sqrt of a non-negative fixed-point number.
Sqrt(x) == ISqrt(x * Scale)


(***************************************************************************)
(* Non-finite values.  A magnitude beyond MaxFinite is outside the range   *)
(* of the fixed-point numbers and is treated like the overflow of a double *)
(* to infinity: the result is not finite.                                  *)
(***************************************************************************)
MaxFinite == 256 * Scale

INFINITY == 1000000

Finite(x) == IF IsNaN(x) \/ Abs(x) > MaxFinite THEN NaN ELSE x

\* IEEE comparison a > b: false as soon as one side is not a number.
DoubleGt(a, b) == ~IsNaN(a) /\ ~IsNaN(b) /\ a > b

(***************************************************************************)
(* Vessel parameters (PhysicalData).  G0, A0, rho > 0; every vessel of the *)
(* model carries the same record: G0 = 8, A0 = 1, rho = 1.                 *)
(***************************************************************************)
PhysicalData == [G0 |-> 8 * Scale, A0 |-> Scale, rho |-> Scale]

\* c0 = sqrt(G0 / (2 rho))
WaveSpeed(param) == Sqrt(Div(param.G0, 2 * param.rho))

\* R1 = rho c0 / A0
Resistance(param) == Div(Mul(param.rho, WaveSpeed(param)), param.A0)

\* (A / A0)^(1/4)
Root4(A, A0) == Sqrt(Sqrt(Div(A, A0)))

\* p(A) = G0 (sqrt(A / A0) - 1); not a number for a negative cross-section.
calculate_static_p(A, G0, A0) ==
  IF IsNaN(A) \/ A < 0 THEN NaN ELSE Mul(G0, Sqrt(Div(A, A0)) - Scale)

\* W1 = -Q/A + 4 c0 (A/A0)^(1/4); not finite unless A > 0.
calculate_W1_value(Q, A, param) ==
  IF IsNaN(Q) \/ IsNaN(A) \/ A <= 0 THEN NaN
  ELSE -Div(Q, A) + 4 * Mul(WaveSpeed(param), Root4(A, param.A0))

\* W2 = +Q/A + 4 c0 (A/A0)^(1/4)
calculate_W2_value(Q, A, param) ==
  IF IsNaN(Q) \/ IsNaN(A) \/ A <= 0 THEN NaN
  ELSE Div(Q, A) + 4 * Mul(WaveSpeed(param), Root4(A, param.A0))

(***************************************************************************)
(* The Windkessel equation and its damped Newton iteration                 *)
(* (calculate_inout_fluxes, the is_windkessel_outflow branch).             *)
(***************************************************************************)
MaxNewtonIter == 250

\* const double TOL = 1.0e-10: below the unit of the fixed-point numbers, so
\* that error > TOL holds exactly when error > 0.
TOL == 0

\* const double omega = 0.5 / 2.;
omega_undivided == Scale \div 2

omega == (Scale \div 2) \div 2

\* The cross-sections at which f and df are finite numbers.
WkDefined(A_out, param) ==
  /\ ~IsNaN(A_out)
  /\ A_out > 0
  /\ A_out <= MaxFinite
  /\ Mul(Mul(A_out, A_out), Resistance(param)) # 0
  /\ Mul(Sqrt(A_out), Sqrt(Sqrt(A_out))) # 0

\* f(A_out) = W - (p - p_c) / (A_out R1) - 4 c0 (A_out / A0)^(1/4)
WkF(A_out, W, p_c, param) ==
  IF IsNaN(W) \/ IsNaN(p_c) \/ ~WkDefined(A_out, param) THEN NaN
  ELSE LET p == Mul(param.G0, Sqrt(Div(A_out, param.A0)) - Scale)
       IN W - Div(p - p_c, Mul(A_out, Resistance(param)))
            - 4 * Mul(WaveSpeed(param), Root4(A_out, param.A0))

\* df(A_out) = -dp / (A_out R1) + (p - p_c) / (A_out^2 R1)
\*             - c0 A_out^(-3/4) / A0^(1/4)
WkDf(A_out, W, p_c, param) ==
  IF IsNaN(W) \/ IsNaN(p_c) \/ ~WkDefined(A_out, param) THEN NaN
  ELSE LET p == Mul(param.G0, Sqrt(Div(A_out, param.A0)) - Scale)
           dp == Div(Mul(param.G0, Scale \div 2), Sqrt(Mul(A_out, param.A0)))
           pow075 == Div(Scale, Mul(Sqrt(A_out), Sqrt(Sqrt(A_out))))
       IN - Div(dp, Mul(A_out, Resistance(param)))
          + Div(p - p_c, Mul(Mul(A_out, A_out), Resistance(param)))
          - Div(Mul(WaveSpeed(param), pow075), Sqrt(Sqrt(param.A0)))

\* while (num_iter < 250 && error > TOL)
NewtonContinuesPastCap(num_iter, error) ==
  num_iter <= MaxNewtonIter /\ DoubleGt(error, TOL)

NewtonContinues(num_iter, error) ==
  num_iter < MaxNewtonIter /\ DoubleGt(error, TOL)

\* const double dx = -f_value / df_value;  A_out = A_out + omega * dx;
NewtonUpdate(A_out, f_value, df_value) ==
  IF IsNaN(f_value) \/ IsNaN(df_value) \/ df_value = 0 THEN NaN
  ELSE Finite(A_out + Mul(omega, Div(-f_value, df_value)))

\* error = std::abs(f(A_out));  num_iter += 1;  the warning at the cap.
NewtonAdvance(st, A_new, f_new) ==
  [A_out |-> A_new,
   error |-> IF IsNaN(f_new) THEN NaN ELSE Abs(f_new),
   num_iter |-> st.num_iter + 1,
   warned |-> st.warned \/ (st.num_iter + 1 = MaxNewtonIter)]

NewtonIterate(st, A_new, W, p_c, param) ==
  NewtonAdvance(st, A_new, WkF(A_new, W, p_c, param))

\* One pass through the loop body.
NewtonStep(st, W, p_c, param) ==
  NewtonIterate(st,
                NewtonUpdate(st.A_out, WkF(st.A_out, W, p_c, param),
                             WkDf(st.A_out, W, p_c, param)),
                W, p_c, param)

\* The while loop, as at most n turns: no turn is taken once the loop
\* condition fails.  MaxTurns is more than the loop can take.
MaxTurns == 2 * MaxNewtonIter

RECURSIVE NewtonTurns(_, _, _, _, _)
NewtonTurns(st, n, W, p_c, param) ==
  IF n = 0 \/ ~NewtonContinues(st.num_iter, st.error) THEN st
  ELSE IF n = 1 THEN NewtonStep(st, W, p_c, param)
  ELSE NewtonTurns(NewtonTurns(st, n \div 2, W, p_c, param),
                   n - (n \div 2), W, p_c, param)

NewtonLoop(st, W, p_c, param) == NewtonTurns(st, MaxTurns, W, p_c, param)

\* double A_out = A;
NewtonStart(A) ==
  [A_out |-> A, error |-> INFINITY, num_iter |-> 0, warned |-> FALSE]


(***************************************************************************)
(* Graph model (GraphStorage, Vertex, Edge).  Vertices and edges are       *)
(* addressed by integer id; an edge is the ordered pair of its endpoints.  *)
(* GraphList[1] is a single vessel, GraphList[2] a loop of two vessels     *)
(* between vertices 0 and 1 with a third vessel from vertex 1 to the leaf  *)
(* vertex 2: vertex 1 has degree 3, vertex 0 degree 2.                     *)
(***************************************************************************)
GraphList ==
  << [num_vertices |-> 2, edges |-> << <<0, 1>> >>],
     [num_vertices |-> 3, edges |-> << <<0, 1>>, <<1, 0>>, <<1, 2>> >>] >>

FlowTypes ==
  {"Inner", "InflowPrescribed", "FreeOutflow", "WindkesselOutflow",
   "VesselTreeOutflow", "NonlinearCharacteristicInflow"}

VARIABLES
  graph,        \* the graph built: an index into GraphList
  flow_type,    \* boundary classification of every vertex
  bcs,          \* "open", "finalized" or "error": finalize_boundary_conditions
  num_ranks,    \* worker count, 0 before the graph is partitioned
  edge_rank     \* owning worker of every edge

num_vertices == GraphList[graph].num_vertices

num_edges == Len(GraphList[graph].edges)

VertexIds == 0..(num_vertices - 1)

EdgeIds == 0..(num_edges - 1)

Ranks == 0..(num_ranks - 1)

get_vertex_neighbors(e) == GraphList[graph].edges[e + 1]

is_pointing_to(e, v) == get_vertex_neighbors(e)[2] = v

IsIncident(e, v) == get_vertex_neighbors(e)[1] = v \/ get_vertex_neighbors(e)[2] = v

\* The ids of the edges at v, in the order in which they were connected.
RECURSIVE NeighborsFrom(_, _)
NeighborsFrom(v, e) ==
  IF e >= num_edges THEN << >>
  ELSE IF IsIncident(e, v) THEN <<e>> \o NeighborsFrom(v, e + 1)
       ELSE NeighborsFrom(v, e + 1)

get_edge_neighbors(v) == NeighborsFrom(v, 0)

is_leaf(v) == Len(get_edge_neighbors(v)) = 1

is_bifurcation(v) == Len(get_edge_neighbors(v)) >= 3

is_inflow(v) == flow_type[v] = "InflowPrescribed"

is_free_outflow(v) == flow_type[v] = "FreeOutflow"

is_windkessel_outflow(v) == flow_type[v] = "WindkesselOutflow"

\* The inflow waveform of a prescribed-inflow vertex, as a function of time.
get_inflow_value(t) == IF IsNaN(t) THEN NaN ELSE (t + 1) * Scale

\* finalize_boundary_conditions accepts the graph.
BoundaryConditionsValidLeavesOnly ==
  \A v \in VertexIds : is_leaf(v) => flow_type[v] # "Inner"

BoundaryConditionsValid ==
  \A v \in VertexIds :
    /\ is_leaf(v) => flow_type[v] # "Inner"
    /\ is_bifurcation(v) => flow_type[v] = "Inner"

(***************************************************************************)
(* Partition.  Edges are distributed in contiguous ranges of edge ids      *)
(* (naive_mesh_partitioner); an edge is active on the worker owning it, a  *)
(* vertex on every worker owning one of its edges.                         *)
(***************************************************************************)
naive_mesh_partitioner_rounding_up(n) ==
  [e \in EdgeIds |-> (e * n + num_edges - 1) \div num_edges]

naive_mesh_partitioner(n) == [e \in EdgeIds |-> (e * n) \div num_edges]

\* A vertex is owned by the worker owning its canonical (first) incident edge.
vertex_rank(v) == edge_rank[get_edge_neighbors(v)[1]]

get_active_edge_ids(rank) == {e \in EdgeIds : edge_rank[e] = rank}

get_active_vertex_ids(rank) ==
  {v \in VertexIds : \E e \in get_active_edge_ids(rank) : IsIncident(e, v)}

\* Edges of other workers at the vertices a worker resolves.
get_ghost_edge_ids(rank) ==
  {e \in EdgeIds :
     /\ edge_rank[e] # rank
     /\ \E v \in get_active_vertex_ids(rank) : IsIncident(e, v)}

(***************************************************************************)
(* DOF map.  Every macro-edge owns a contiguous block of indices, ordered  *)
(* by micro-edge, then component (0: Q, 1: A), then basis function; the    *)
(* vertex unknowns (one capillary pressure per Windkessel vertex) follow   *)
(* the edge blocks in the order of the vertex ids.                         *)
(***************************************************************************)
NumMicroEdges == 2
NumBasisFunctions == 2

EdgeBlockSize == NumMicroEdges * 2 * NumBasisFunctions

num_micro_vertices == NumMicroEdges + 1

dof_indices_one_component(e, micro_edge, component) ==
  [k \in 0..(NumBasisFunctions - 1) |->
     e * EdgeBlockSize + micro_edge * 2 * NumBasisFunctions + k]

dof_indices(e, micro_edge, component) ==
  [k \in 0..(NumBasisFunctions - 1) |->
     e * EdgeBlockSize + micro_edge * 2 * NumBasisFunctions
       + component * NumBasisFunctions + k]

NumEdgeDofs == num_edges * EdgeBlockSize

vertex_dof_indices(v) ==
  IF is_windkessel_outflow(v)
  THEN << NumEdgeDofs
          + Cardinality({x \in VertexIds : x < v /\ is_windkessel_outflow(x)}) >>
  ELSE << >>

NumDofs ==
  NumEdgeDofs + Cardinality({x \in VertexIds : is_windkessel_outflow(x)})

extract_dof(indices, u) == [k \in DOMAIN indices |-> u[indices[k]]]

\* sum of sign^k * dofs[k], k = lo..NumBasisFunctions-1
RECURSIVE BasisSum(_, _, _)
BasisSum(dofs, k, sign) ==
  IF k >= NumBasisFunctions THEN 0
  ELSE (IF k % 2 = 1 THEN sign ELSE 1) * dofs[k] + BasisSum(dofs, k + 1, sign)

\* Legendre basis: the value at the left end alternates the signs.
evaluate_dof_at_boundary_points(dofs) ==
  [left |-> BasisSum(dofs, 0, -1), right |-> BasisSum(dofs, 0, 1)]

(***************************************************************************)
(* Solution vectors.  Solution 0 is the state of rest (Q = 0, A = A0,      *)
(* p_c = 0); solution s adds s times a fixed perturbation.                 *)
(***************************************************************************)
Perturbation(i, num_edge_dofs) ==
  IF i >= num_edge_dofs THEN Scale
  ELSE IF i % NumBasisFunctions = 0 THEN (((i * 7) % 5) - 2) * (Scale \div 8)
  ELSE IF i % NumBasisFunctions = 1 THEN (((i * 5) % 3) - 1) * (Scale \div 16)
  ELSE 0

RestValue(i, num_edge_dofs) ==
  IF i < num_edge_dofs /\ i % NumBasisFunctions = 0
       /\ (i \div NumBasisFunctions) % 2 = 1
  THEN PhysicalData.A0
  ELSE 0

SolutionValue(s, i, num_edge_dofs) ==
  RestValue(i, num_edge_dofs) + s * Perturbation(i, num_edge_dofs)

Solution(s) == [i \in 0..(NumDofs - 1) |-> SolutionValue(s, i, NumEdgeDofs)]

Solutions == {Solution(s) : s \in 0..(NumSol - 1)}

Times == 0..MaxT

TimeArgs == Times \cup {NaN}


(***************************************************************************)
(* Riemann solvers of vessel_formulas.  All vessels carry the same         *)
(* parameters, so the junction conditions (one outgoing invariant per      *)
(* vessel, equal pressure, conservation of mass) have the closed form      *)
(* 4 c0 (A/A0)^(1/4) = mean of the invariants, A the same on every vessel. *)
(***************************************************************************)
RECURSIVE SeqSum(_, _)
SeqSum(seq, i) == IF i > Len(seq) THEN 0 ELSE seq[i] + SeqSum(seq, i + 1)

\* A = A0 (r / c0)^4 for r = c0 (A/A0)^(1/4)
AreaOfRoot(r, param) ==
  LET q == Div(r, WaveSpeed(param))
  IN Mul(param.A0, Mul(Mul(q, q), Mul(q, q)))

solve_at_nfurcation(Q_e, A_e, e_in, param) ==
  LET W == [i \in DOMAIN Q_e |->
              IF e_in[i] THEN calculate_W2_value(Q_e[i], A_e[i], param)
              ELSE calculate_W1_value(Q_e[i], A_e[i], param)]
      mean == Quot(SeqSum(W, 1), Len(W))
      A_star == AreaOfRoot(Quot(mean, 4), param)
  IN [Q_up |-> [i \in DOMAIN Q_e |->
                  IF e_in[i] THEN Mul(A_star, W[i] - mean)
                  ELSE Mul(A_star, mean - W[i])],
      A_up |-> [i \in DOMAIN Q_e |-> A_star]]

\* A_up = A0 (2 rho / G0)^2 ((W1 + W2) / 8)^4,  Q_up = A_up (W2 - W1) / 2
solve_W12(W1, W2, param) ==
  LET A_up == AreaOfRoot(Quot(W1 + W2, 8), param)
  IN [Q_up |-> Mul(A_up, Quot(W2 - W1, 2)), A_up |-> A_up]

\* The cross-section compatible with the flow Q_star and with the invariant
\* W leaving the vessel: W = -+Q_star / A_up + 4 c0 (A_up / A0)^(1/4).  The
\* flow enters the vessel, so the defect of the equation falls as A_up
\* grows; the root is bracketed by bisection on the grid 1..MaxArea and the
\* grid value next to it with the smaller defect is taken.
MaxArea == 4 * Scale

InflowDefect(A_up, W, is_in, Q_star, param) ==
  W - (IF is_in THEN Div(Q_star, A_up) ELSE -Div(Q_star, A_up))
    - 4 * Mul(WaveSpeed(param), Root4(A_up, param.A0))

\* The smallest grid value in lo..hi whose defect is not positive, hi if none.
RECURSIVE FirstNonPositive(_, _, _, _, _, _)
FirstNonPositive(lo, hi, W, is_in, Q_star, param) ==
  IF lo >= hi THEN hi
  ELSE LET mid == (lo + hi) \div 2
       IN IF InflowDefect(mid, W, is_in, Q_star, param) <= 0
          THEN FirstNonPositive(lo, mid, W, is_in, Q_star, param)
          ELSE FirstNonPositive(mid + 1, hi, W, is_in, Q_star, param)

\* Of a - 1 and a, the grid value with the smaller defect.
NearestArea(a, W, is_in, Q_star, param) ==
  IF a > 1 /\ Abs(InflowDefect(a - 1, W, is_in, Q_star, param))
                <= Abs(InflowDefect(a, W, is_in, Q_star, param))
  THEN a - 1 ELSE a

InflowArea(W, is_in, Q_star, param) ==
  NearestArea(FirstNonPositive(1, MaxArea, W, is_in, Q_star, param),
              W, is_in, Q_star, param)

assemble_in_flow(Q, A, is_in, Q_star, param) ==
  IF IsNaN(Q_star) THEN NaN
  ELSE InflowArea(IF is_in THEN calculate_W2_value(Q, A, param)
                  ELSE calculate_W1_value(Q, A, param),
                  is_in, Q_star, param)

(***************************************************************************)
(* The Windkessel solve of one leaf vertex: the invariant W of the         *)
(* measured (Q, A), the Newton loop started at the measured A, and the     *)
(* outlet flow of the last iterate.                                        *)
(***************************************************************************)
WindkesselInvariantSwapped(Q, A, is_in, param) ==
  IF is_in THEN calculate_W1_value(Q, A, param)
  ELSE calculate_W2_value(Q, A, param)

WindkesselInvariant(Q, A, is_in, param) ==
  IF is_in THEN calculate_W2_value(Q, A, param)
  ELSE calculate_W1_value(Q, A, param)

WindkesselNewton(Q, A, p_c, is_in, param) ==
  NewtonLoop(NewtonStart(A), WindkesselInvariant(Q, A, is_in, param), p_c, param)

\* Q_out = sgn (p(A_out) - p_c) / R1
WindkesselFlowUnsigned(A_out, p_c, is_in, param) ==
  LET p == calculate_static_p(A_out, param.G0, param.A0)
  IN IF IsNaN(p) THEN NaN ELSE Div(p - p_c, Resistance(param))

WindkesselFlow(A_out, p_c, is_in, param) ==
  LET p == calculate_static_p(A_out, param.G0, param.A0)
  IN IF IsNaN(p) THEN NaN
     ELSE (IF is_in THEN 1 ELSE -1) * Div(p - p_c, Resistance(param))

\* The number of edge ends at v in graph g.
Degree(g, v) ==
  Cardinality({e \in DOMAIN GraphList[g].edges :
                 GraphList[g].edges[e][1] = v \/ GraphList[g].edges[e][2] = v})

BoundaryValueOfSolution(s, num_edge_dofs, e, side, component) ==
  LET idx == dof_indices(e, IF side = 0 THEN 0 ELSE NumMicroEdges - 1, component)
      dofs == [k \in DOMAIN idx |-> SolutionValue(s, idx[k], num_edge_dofs)]
  IN IF side = 0 THEN evaluate_dof_at_boundary_points(dofs).left
     ELSE evaluate_dof_at_boundary_points(dofs).right

\* The Newton inputs the solution vectors of the model produce at the leaf
\* ends of the graphs, for the edge as stored and for the edge reversed
\* (rev); their results are computed once.
NewtonInputsOf(g, s) ==
  LET ned == Len(GraphList[g].edges) * EdgeBlockSize
      ends == {x \in (DOMAIN GraphList[g].edges) \X {0, 1} :
                 Degree(g, GraphList[g].edges[x[1]][x[2] + 1]) = 1}
  IN { << IF rev THEN Neg(BoundaryValueOfSolution(s, ned, x[1] - 1, x[2], 0))
          ELSE BoundaryValueOfSolution(s, ned, x[1] - 1, x[2], 0),
          BoundaryValueOfSolution(s, ned, x[1] - 1, x[2], 1),
          SolutionValue(s, ned, ned),
          (x[2] = 1) # rev >> : x \in ends, rev \in BOOLEAN }

NewtonInputs ==
  UNION {NewtonInputsOf(g, s) : g \in DOMAIN GraphList, s \in 0..(NumSol - 1)}

RECURSIVE NewtonTable(_)
NewtonTable(inputs) ==
  IF inputs = {} THEN << >>
  ELSE LET x == CHOOSE y \in inputs : TRUE
       IN (x :> WindkesselNewton(x[1], x[2], x[3], x[4], PhysicalData))
            @@ NewtonTable(inputs \ {x})

NewtonCache == NewtonTable(NewtonInputs)

WindkesselSolve(Q, A, p_c, is_in, param) ==
  IF param = PhysicalData /\ <<Q, A, p_c, is_in>> \in NewtonInputs
  THEN NewtonCache[<<Q, A, p_c, is_in>>]
  ELSE WindkesselNewton(Q, A, p_c, is_in, param)

(***************************************************************************)
(* FlowUpwindEvaluator.  Every worker holds its own evaluator: the time    *)
(* stamp, the boundary-value buffers (slot 2e: left end of edge e, slot    *)
(* 2e+1: right end) and the four flux caches.                              *)
(***************************************************************************)
VARIABLES
  t_now,        \* the time the driver passes to init in the current step
  u_now,        \* the solution vector the driver passes to init
  pc,           \* per worker: where it stands in its init call
  d_current_t,
  d_Q_macro_edge_boundary_value,
  d_A_macro_edge_boundary_value,
  d_Q_macro_edge_flux_l,
  d_Q_macro_edge_flux_r,
  d_A_macro_edge_flux_l,
  d_A_macro_edge_flux_r,
  phases_run,   \* per worker: the steps of the current init call, in order
  written,      \* per worker: the cache entries written by the current call
  wk_log,       \* the Windkessel resolutions performed so far
  ret,          \* the outcome of the accessor call being returned
  wk_loop,      \* a Windkessel Newton loop run turn by turn
  solver,       \* the explicit time-stepper: its vector and its progress
  solver_3d     \* the perfusion outlets stored in the 3D solver

vars ==
  << graph, flow_type, bcs, num_ranks, edge_rank, t_now, u_now, pc,
     d_current_t, d_Q_macro_edge_boundary_value, d_A_macro_edge_boundary_value,
     d_Q_macro_edge_flux_l, d_Q_macro_edge_flux_r, d_A_macro_edge_flux_l,
     d_A_macro_edge_flux_r, phases_run, written, wk_log, ret, wk_loop, solver,
                  solver_3d >>

\* if (d_current_t != t) throw ...
TimeStampMismatchBitwise(rank, t) == d_current_t[rank] # t

TimeStampMismatch(rank, t) == DoubleNeq(d_current_t[rank], t)

\* The order of the statements of init.
NextPhaseSwapped(phase) ==
  CASE phase = "extract" -> "nfurcation"
    [] phase = "nfurcation" -> "ghostQ"
    [] phase = "ghostQ" -> "ghostA"
    [] phase = "ghostA" -> "inout"
    [] OTHER -> "done"

NextPhase(phase) ==
  CASE phase = "extract" -> "ghostQ"
    [] phase = "ghostQ" -> "ghostA"
    [] phase = "ghostA" -> "nfurcation"
    [] phase = "nfurcation" -> "inout"
    [] OTHER -> "done"

\* The boundary value of one end (side 0: left, 1: right) of edge e.
EdgeBoundaryValue(u, e, side, component) ==
  LET idx == dof_indices(e, IF side = 0 THEN 0 ELSE NumMicroEdges - 1, component)
      val == evaluate_dof_at_boundary_points(extract_dof(idx, u))
  IN IF side = 0 THEN val.left ELSE val.right

\* The slots the loop over the active edges assigns: 2e and 2e+1.
ExtractedSlotsEveryEdge(rank) ==
  {i \in 0..(2 * num_edges - 1) : (i \div 2) \in EdgeIds}

ExtractedSlots(rank) ==
  {i \in 0..(2 * num_edges - 1) : (i \div 2) \in get_active_edge_ids(rank)}

evaluate_macro_edge_boundary_values_stale(buf, rank, u, component) ==
  [i \in DOMAIN buf |->
     IF i \in ExtractedSlots(rank) /\ buf[i] = 0
     THEN EdgeBoundaryValue(u, i \div 2, i % 2, component)
     ELSE buf[i]]

evaluate_macro_edge_boundary_values(buf, rank, u, component) ==
  [i \in DOMAIN buf |->
     IF i \in ExtractedSlots(rank)
     THEN EdgeBoundaryValue(u, i \div 2, i % 2, component)
     ELSE buf[i]]

GhostSlots(rank) ==
  {i \in 0..(2 * num_edges - 1) : (i \div 2) \in get_ghost_edge_ids(rank)}

\* Communicator::update_ghost_layer on one worker: it receives, for each of
\* its ghost edges, both slots of the buffer of the worker owning the edge.
update_ghost_layer(buf, rank) ==
  [i \in DOMAIN buf[rank] |->
     IF i \in GhostSlots(rank)
     THEN buf[edge_rank[i \div 2]][i]
     ELSE buf[rank][i]]

\* A worker has arrived at a step of init once the step is the next one it
\* runs or it has run it.
Arrived(rank, phase) ==
  pc[rank] = phase \/ \E k \in DOMAIN phases_run[rank] : phases_run[rank][k] = phase

\* The exchange is blocking and collective: a worker leaves it only after
\* every worker has arrived at it.
ExchangeReady(rank, phase) ==
  pc[rank] = phase /\ \A r \in Ranks : Arrived(r, phase)

\* The slot of the boundary-value buffers holding the end of e at v.
BoundarySlot(e, v) == IF is_pointing_to(e, v) THEN 2 * e + 1 ELSE 2 * e

\* The caches of one worker while a resolution loop runs over them.
Cache(rank) ==
  [Q_l |-> d_Q_macro_edge_flux_l[rank], Q_r |-> d_Q_macro_edge_flux_r[rank],
   A_l |-> d_A_macro_edge_flux_l[rank], A_r |-> d_A_macro_edge_flux_r[rank],
   log |-> written[rank], wk |-> {}, failed |-> FALSE]

\* The right flux of e if e points to v, the left flux otherwise.
StoreFluxBothEnds(c, e, v, Q, A) ==
  [c EXCEPT !.Q_r[e] = Q, !.A_r[e] = A, !.Q_l[e] = Q, !.A_l[e] = A,
            !.log = @ \cup {<<"flux_r", e, v>>, <<"flux_l", e, v>>}]

StoreFlux(c, e, v, Q, A) ==
  IF is_pointing_to(e, v)
  THEN [c EXCEPT !.Q_r[e] = Q, !.A_r[e] = A,
                 !.log = @ \cup {<<"flux_r", e, v>>}]
  ELSE [c EXCEPT !.Q_l[e] = Q, !.A_l[e] = A,
                 !.log = @ \cup {<<"flux_l", e, v>>}]

(***************************************************************************)
(* calculate_nfurcation_fluxes: the body of the loop for one vertex, and   *)
(* the loop over the active vertices in the order the graph lists them.    *)
(***************************************************************************)
RECURSIVE StoreFluxesSkipLast(_, _, _, _, _)
StoreFluxesSkipLast(c, e, v, up, vessel_idx) ==
  IF vessel_idx >= Len(e) THEN c
  ELSE StoreFluxesSkipLast(StoreFlux(c, e[vessel_idx], v,
                                     up.Q_up[vessel_idx], up.A_up[vessel_idx]),
                           e, v, up, vessel_idx + 1)

RECURSIVE StoreFluxes(_, _, _, _, _)
StoreFluxes(c, e, v, up, vessel_idx) ==
  IF vessel_idx > Len(e) THEN c
  ELSE StoreFluxes(StoreFlux(c, e[vessel_idx], v,
                             up.Q_up[vessel_idx], up.A_up[vessel_idx]),
                   e, v, up, vessel_idx + 1)

\* The boundary values at v of the edges e, from one of the two buffers.
ValuesAt(buf, e, v) == [i \in DOMAIN e |-> buf[BoundarySlot(e[i], v)]]

nfurcation_edge_fluxes(c, rank, e, v) ==
  StoreFluxes(c, e, v,
              solve_at_nfurcation(
                ValuesAt(d_Q_macro_edge_boundary_value[rank], e, v),
                ValuesAt(d_A_macro_edge_boundary_value[rank], e, v),
                [i \in DOMAIN e |-> is_pointing_to(e[i], v)],
                PhysicalData),
              1)

nfurcation_fluxes_at(c, rank, v) ==
  IF ~is_bifurcation(v) THEN c
  ELSE nfurcation_edge_fluxes(c, rank, get_edge_neighbors(v), v)

RECURSIVE calculate_nfurcation_fluxes(_, _, _, _)
calculate_nfurcation_fluxes(c, rank, order, i) ==
  IF i > Len(order) THEN c
  ELSE calculate_nfurcation_fluxes(nfurcation_fluxes_at(c, rank, order[i]),
                                   rank, order, i + 1)

(***************************************************************************)
(* calculate_inout_fluxes: the body of the loop for one vertex.            *)
(***************************************************************************)
Q_init == 0

\* double A_out = A;  (A_flux is the cache entry the result will replace)
NewtonStartStored(A, A_flux) ==
  [A_out |-> IF A_flux > 0 THEN A_flux ELSE A,
   error |-> INFINITY, num_iter |-> 0, warned |-> FALSE]

NewtonStartValue(A, A_flux) == NewtonStart(A)

\* Q_star = (in ? -1 : +1) * get_inflow_value(t);  A_up = assemble_in_flow(..)
inflow_flux_unsigned(t, is_in, Q, A, param) ==
  [Q_up |-> get_inflow_value(t),
   A_up |-> assemble_in_flow(Q, A, is_in, get_inflow_value(t), param)]

inflow_flux(t, is_in, Q, A, param) ==
  [Q_up |-> IF is_in THEN Neg(get_inflow_value(t)) ELSE get_inflow_value(t),
   A_up |-> assemble_in_flow(
              Q, A, is_in,
              IF is_in THEN Neg(get_inflow_value(t)) ELSE get_inflow_value(t),
              param)]

\* The invariant entering the vessel comes from the state (Q_init, A0), the
\* one leaving it from the measured (Q, A).
free_outflow_flux_no_reference(is_in, Q, A, param) ==
  solve_W12(IF is_in THEN 0 ELSE calculate_W1_value(Q, A, param),
            IF is_in THEN calculate_W2_value(Q, A, param) ELSE 0,
            param)

free_outflow_flux(is_in, Q, A, param) ==
  solve_W12(IF is_in THEN calculate_W1_value(Q_init, param.A0, param)
            ELSE calculate_W1_value(Q, A, param),
            IF is_in THEN calculate_W2_value(Q, A, param)
            ELSE calculate_W2_value(Q_init, param.A0, param),
            param)

StorePair(c, e, v, up) == StoreFlux(c, e, v, up.Q_up, up.A_up)

\* The Newton loop from the start value; the results of the loop started at
\* the measured A are looked up.
windkessel_newton(start, Q, A, p_c, is_in, param) ==
  IF start = NewtonStart(A) THEN WindkesselSolve(Q, A, p_c, is_in, param)
  ELSE NewtonLoop(start, WindkesselInvariant(Q, A, is_in, param), p_c, param)

\* The resolution as it is remembered in wk_log.
WindkesselRecord(v, Q, A, p_c, is_in, A_flux, newton, Q_out) ==
  [vertex |-> v, Q |-> Q, A |-> A, p_c |-> p_c, is_in |-> is_in,
   A_flux |-> A_flux, A_out |-> newton.A_out, Q_out |-> Q_out,
   num_iter |-> newton.num_iter, error |-> newton.error,
   warned |-> newton.warned]

StoreWindkessel(c, e, v, rec) ==
  [StoreFlux(c, e, v, rec.Q_out, rec.A_out) EXCEPT !.wk = @ \cup {rec}]

\* Whatever the loop ended with is stored; nothing is thrown.
windkessel_fluxes_or_throw(c, e, v, Q, A, p_c, A_flux, newton) ==
  IF DoubleGt(newton.error, TOL) THEN [c EXCEPT !.failed = TRUE]
  ELSE StoreWindkessel(
         c, e, v,
         WindkesselRecord(v, Q, A, p_c, is_pointing_to(e, v), A_flux, newton,
                          WindkesselFlow(newton.A_out, p_c,
                                         is_pointing_to(e, v), PhysicalData)))

windkessel_fluxes(c, e, v, Q, A, p_c, A_flux, newton) ==
  StoreWindkessel(
    c, e, v,
    WindkesselRecord(v, Q, A, p_c, is_pointing_to(e, v), A_flux, newton,
                     WindkesselFlow(newton.A_out, p_c,
                                    is_pointing_to(e, v), PhysicalData)))

\* The chain of branches for the leaf v at the end of its edge e, with the
\* measured (Q, A) and the cache entry A_flux at that end.
leaf_fluxes(c, e, v, t, u, Q, A, A_flux) ==
  IF is_inflow(v)
  THEN StorePair(c, e, v,
                 inflow_flux(t, is_pointing_to(e, v), Q, A, PhysicalData))
  ELSE IF is_free_outflow(v)
  THEN StorePair(c, e, v,
                 free_outflow_flux(is_pointing_to(e, v), Q, A, PhysicalData))
  ELSE IF is_windkessel_outflow(v)
  THEN windkessel_fluxes(
         c, e, v, Q, A, u[vertex_dof_indices(v)[1]], A_flux,
         windkessel_newton(NewtonStartValue(A, A_flux), Q, A,
                           u[vertex_dof_indices(v)[1]],
                           is_pointing_to(e, v), PhysicalData))
  ELSE [c EXCEPT !.failed = TRUE]

leaf_edge_fluxes(c, rank, e, v, t, u) ==
  leaf_fluxes(c, e, v, t, u,
              d_Q_macro_edge_boundary_value[rank][BoundarySlot(e, v)],
              d_A_macro_edge_boundary_value[rank][BoundarySlot(e, v)],
              IF is_pointing_to(e, v) THEN c.A_r[e] ELSE c.A_l[e])

inout_fluxes_at_any_vertex(c, rank, v, t, u) ==
  IF c.failed THEN c
  ELSE leaf_edge_fluxes(c, rank, get_edge_neighbors(v)[1], v, t, u)

inout_fluxes_at(c, rank, v, t, u) ==
  IF c.failed \/ ~is_leaf(v) THEN c
  ELSE leaf_edge_fluxes(c, rank, get_edge_neighbors(v)[1], v, t, u)

RECURSIVE calculate_inout_fluxes(_, _, _, _, _, _)
calculate_inout_fluxes(c, rank, order, i, t, u) ==
  IF i > Len(order) THEN c
  ELSE calculate_inout_fluxes(inout_fluxes_at(c, rank, order[i], t, u),
                              rank, order, i + 1, t, u)

\* The orders in which a loop may meet the vertices of S.
Orders(S) ==
  {f \in [1..Cardinality(S) -> S] :
     \A i, j \in 1..Cardinality(S) : i # j => f[i] # f[j]}

(***************************************************************************)
(* The accessors.  A call that fails the time-stamp check returns nothing. *)
(***************************************************************************)
NoValues == [error |-> TRUE, Q_up |-> << >>, A_up |-> << >>]

\* The upwinded pair at the interior micro-vertex between two micro-edges.
InteriorFlux(e, u, micro_vertex_id) ==
  LET Q_l == evaluate_dof_at_boundary_points(
               extract_dof(dof_indices(e, micro_vertex_id - 1, 0), u)).right
      A_l == evaluate_dof_at_boundary_points(
               extract_dof(dof_indices(e, micro_vertex_id - 1, 1), u)).right
      Q_r == evaluate_dof_at_boundary_points(
               extract_dof(dof_indices(e, micro_vertex_id, 0), u)).left
      A_r == evaluate_dof_at_boundary_points(
               extract_dof(dof_indices(e, micro_vertex_id, 1), u)).left
  IN solve_W12(calculate_W1_value(Q_r, A_r, PhysicalData),
               calculate_W2_value(Q_l, A_l, PhysicalData), PhysicalData)

get_fluxes_on_macro_edge(rank, t, e, u) ==
  IF TimeStampMismatch(rank, t) THEN NoValues
  ELSE [error |-> FALSE,
        Q_up |-> [m \in 0..(num_micro_vertices - 1) |->
                    IF m = 0 THEN d_Q_macro_edge_flux_l[rank][e]
                    ELSE IF m = num_micro_vertices - 1
                    THEN d_Q_macro_edge_flux_r[rank][e]
                    ELSE InteriorFlux(e, u, m).Q_up],
        A_up |-> [m \in 0..(num_micro_vertices - 1) |->
                    IF m = 0 THEN d_A_macro_edge_flux_l[rank][e]
                    ELSE IF m = num_micro_vertices - 1
                    THEN d_A_macro_edge_flux_r[rank][e]
                    ELSE InteriorFlux(e, u, m).A_up]]

get_fluxes_on_nfurcation_swapped(rank, t, v) ==
  IF TimeStampMismatch(rank, t) THEN NoValues
  ELSE LET e == get_edge_neighbors(v)
       IN [error |-> FALSE,
           Q_up |-> [i \in DOMAIN e |->
                       IF is_pointing_to(e[i], v)
                       THEN d_Q_macro_edge_flux_l[rank][e[i]]
                       ELSE d_Q_macro_edge_flux_r[rank][e[i]]],
           A_up |-> [i \in DOMAIN e |->
                       IF is_pointing_to(e[i], v)
                       THEN d_A_macro_edge_flux_l[rank][e[i]]
                       ELSE d_A_macro_edge_flux_r[rank][e[i]]]]

get_fluxes_on_nfurcation(rank, t, v) ==
  IF TimeStampMismatch(rank, t) THEN NoValues
  ELSE LET e == get_edge_neighbors(v)
       IN [error |-> FALSE,
           Q_up |-> [i \in DOMAIN e |->
                       IF is_pointing_to(e[i], v)
                       THEN d_Q_macro_edge_flux_r[rank][e[i]]
                       ELSE d_Q_macro_edge_flux_l[rank][e[i]]],
           A_up |-> [i \in DOMAIN e |->
                       IF is_pointing_to(e[i], v)
                       THEN d_A_macro_edge_flux_r[rank][e[i]]
                       ELSE d_A_macro_edge_flux_l[rank][e[i]]]]

NoCall == [op |-> "none"]

NoLoop == [phase |-> "off"]

NoSolver == [phase |-> "none"]

NoSolver3D == [status |-> "none"]

(***************************************************************************)
(* The state machine.                                                      *)
(***************************************************************************)
config_vars ==
  << graph, flow_type, bcs, num_ranks, edge_rank, wk_loop, solver, solver_3d >>

evaluator_vars ==
  << d_current_t, d_Q_macro_edge_boundary_value, d_A_macro_edge_boundary_value,
     d_Q_macro_edge_flux_l, d_Q_macro_edge_flux_r, d_A_macro_edge_flux_l,
     d_A_macro_edge_flux_r >>

flux_vars ==
  << d_Q_macro_edge_flux_l, d_Q_macro_edge_flux_r, d_A_macro_edge_flux_l,
     d_A_macro_edge_flux_r >>

Init ==
  /\ graph \in DOMAIN GraphList
  /\ flow_type = [v \in VertexIds |-> "Inner"]
  /\ bcs = "open"
  /\ num_ranks = 0
  /\ edge_rank = << >>
  /\ t_now = NaN
  /\ u_now = << >>
  /\ pc = << >>
  /\ d_current_t = << >>
  /\ d_Q_macro_edge_boundary_value = << >>
  /\ d_A_macro_edge_boundary_value = << >>
  /\ d_Q_macro_edge_flux_l = << >>
  /\ d_Q_macro_edge_flux_r = << >>
  /\ d_A_macro_edge_flux_l = << >>
  /\ d_A_macro_edge_flux_r = << >>
  /\ phases_run = << >>
  /\ written = << >>
  /\ wk_log = {}
  /\ ret = NoCall
  /\ wk_loop = NoLoop
  /\ solver = NoSolver
  /\ solver_3d = NoSolver3D

\* set_to_inflow, set_to_free_outflow, set_to_windkessel_outflow, ...
SetBoundary(v, kind) ==
  /\ bcs = "open"
  /\ flow_type[v] # kind
  /\ flow_type' = [flow_type EXCEPT ![v] = kind]
  /\ UNCHANGED << graph, bcs, num_ranks, edge_rank, t_now, u_now, pc,
                  evaluator_vars, phases_run, written, wk_log, ret, wk_loop, solver,
                  solver_3d >>

\* finalize_bcs
Finalize ==
  /\ bcs = "open"
  /\ bcs' = IF BoundaryConditionsValid THEN "finalized" ELSE "error"
  /\ UNCHANGED << graph, flow_type, num_ranks, edge_rank, t_now, u_now, pc,
                  evaluator_vars, phases_run, written, wk_log, ret, wk_loop, solver,
                  solver_3d >>

\* naive_mesh_partitioner for n workers, then one evaluator per worker.
ConstructStampedZero(n) ==
  /\ bcs = "finalized"
  /\ num_ranks = 0
  /\ num_ranks' = n
  /\ edge_rank' = naive_mesh_partitioner(n)
  /\ pc' = [rank \in 0..(n - 1) |-> "ready"]
  /\ d_current_t' = [rank \in 0..(n - 1) |-> 0]
  /\ d_Q_macro_edge_boundary_value' =
       [rank \in 0..(n - 1) |-> [i \in 0..(2 * num_edges - 1) |-> 0]]
  /\ d_A_macro_edge_boundary_value' =
       [rank \in 0..(n - 1) |-> [i \in 0..(2 * num_edges - 1) |-> 0]]
  /\ d_Q_macro_edge_flux_l' = [rank \in 0..(n - 1) |-> [e \in EdgeIds |-> 0]]
  /\ d_Q_macro_edge_flux_r' = [rank \in 0..(n - 1) |-> [e \in EdgeIds |-> 0]]
  /\ d_A_macro_edge_flux_l' = [rank \in 0..(n - 1) |-> [e \in EdgeIds |-> 0]]
  /\ d_A_macro_edge_flux_r' = [rank \in 0..(n - 1) |-> [e \in EdgeIds |-> 0]]
  /\ phases_run' = [rank \in 0..(n - 1) |-> << >>]
  /\ written' = [rank \in 0..(n - 1) |-> {}]
  /\ UNCHANGED << graph, flow_type, bcs, t_now, u_now, wk_log, ret, wk_loop, solver,
                  solver_3d >>

Construct(n) ==
  /\ bcs = "finalized"
  /\ num_ranks = 0
  /\ num_ranks' = n
  /\ edge_rank' = naive_mesh_partitioner(n)
  /\ pc' = [rank \in 0..(n - 1) |-> "ready"]
  /\ d_current_t' = [rank \in 0..(n - 1) |-> NaN]
  /\ d_Q_macro_edge_boundary_value' =
       [rank \in 0..(n - 1) |-> [i \in 0..(2 * num_edges - 1) |-> 0]]
  /\ d_A_macro_edge_boundary_value' =
       [rank \in 0..(n - 1) |-> [i \in 0..(2 * num_edges - 1) |-> 0]]
  /\ d_Q_macro_edge_flux_l' = [rank \in 0..(n - 1) |-> [e \in EdgeIds |-> 0]]
  /\ d_Q_macro_edge_flux_r' = [rank \in 0..(n - 1) |-> [e \in EdgeIds |-> 0]]
  /\ d_A_macro_edge_flux_l' = [rank \in 0..(n - 1) |-> [e \in EdgeIds |-> 0]]
  /\ d_A_macro_edge_flux_r' = [rank \in 0..(n - 1) |-> [e \in EdgeIds |-> 0]]
  /\ phases_run' = [rank \in 0..(n - 1) |-> << >>]
  /\ written' = [rank \in 0..(n - 1) |-> {}]
  /\ UNCHANGED << graph, flow_type, bcs, t_now, u_now, wk_log, ret, wk_loop, solver,
                  solver_3d >>

\* The driver's loop: solve(tau, t); t += tau, with tau one unit of time.
\* Every worker calls init(t, u) with the driver's time and solution.
NextTime == IF IsNaN(t_now) THEN 0 ELSE t_now + 1

StartStep(u) ==
  /\ num_ranks > 0
  /\ ret = NoCall
  /\ \A rank \in Ranks : pc[rank] \in {"ready", "done"}
  /\ NextTime <= MaxT
  /\ t_now' = NextTime
  /\ u_now' = u
  /\ pc' = [rank \in Ranks |-> "extract"]
  /\ phases_run' = [rank \in Ranks |-> << >>]
  /\ written' = [rank \in Ranks |-> {}]
  /\ UNCHANGED << config_vars, evaluator_vars, wk_log, ret >>

\* init, first part: d_current_t = t; evaluate_macro_edge_boundary_values.
InitExtract(rank) ==
  /\ pc[rank] = "extract"
  /\ d_current_t' = [d_current_t EXCEPT ![rank] = t_now]
  /\ d_Q_macro_edge_boundary_value' =
       [d_Q_macro_edge_boundary_value EXCEPT ![rank] =
          evaluate_macro_edge_boundary_values(@, rank, u_now, 0)]
  /\ d_A_macro_edge_boundary_value' =
       [d_A_macro_edge_boundary_value EXCEPT ![rank] =
          evaluate_macro_edge_boundary_values(@, rank, u_now, 1)]
  /\ written' = [written EXCEPT ![rank] =
                   @ \cup {<<"bv", i>> : i \in ExtractedSlots(rank)}]
  /\ phases_run' = [phases_run EXCEPT ![rank] = Append(@, "extract")]
  /\ pc' = [pc EXCEPT ![rank] = NextPhase("extract")]
  /\ UNCHANGED << config_vars, t_now, u_now, flux_vars, wk_log, ret >>

\* update_ghost_layer(d_Q_macro_edge_boundary_value)
GhostQ(rank) ==
  /\ ExchangeReady(rank, "ghostQ")
  /\ d_Q_macro_edge_boundary_value' =
       [d_Q_macro_edge_boundary_value EXCEPT ![rank] =
          update_ghost_layer(d_Q_macro_edge_boundary_value, rank)]
  /\ written' = [written EXCEPT ![rank] =
                   @ \cup {<<"bv", i>> : i \in GhostSlots(rank)}]
  /\ phases_run' = [phases_run EXCEPT ![rank] = Append(@, "ghostQ")]
  /\ pc' = [pc EXCEPT ![rank] = NextPhase("ghostQ")]
  /\ UNCHANGED << config_vars, t_now, u_now, d_current_t,
                  d_A_macro_edge_boundary_value, flux_vars, wk_log, ret >>

\* update_ghost_layer(d_A_macro_edge_boundary_value)
GhostA(rank) ==
  /\ ExchangeReady(rank, "ghostA")
  /\ d_A_macro_edge_boundary_value' =
       [d_A_macro_edge_boundary_value EXCEPT ![rank] =
          update_ghost_layer(d_A_macro_edge_boundary_value, rank)]
  /\ phases_run' = [phases_run EXCEPT ![rank] = Append(@, "ghostA")]
  /\ pc' = [pc EXCEPT ![rank] = NextPhase("ghostA")]
  /\ UNCHANGED << config_vars, t_now, u_now, d_current_t,
                  d_Q_macro_edge_boundary_value, flux_vars, written, wk_log,
                  ret >>

\* The caches of a worker after a resolution loop.
StoreCache(rank, c) ==
  /\ d_Q_macro_edge_flux_l' = [d_Q_macro_edge_flux_l EXCEPT ![rank] = c.Q_l]
  /\ d_Q_macro_edge_flux_r' = [d_Q_macro_edge_flux_r EXCEPT ![rank] = c.Q_r]
  /\ d_A_macro_edge_flux_l' = [d_A_macro_edge_flux_l EXCEPT ![rank] = c.A_l]
  /\ d_A_macro_edge_flux_r' = [d_A_macro_edge_flux_r EXCEPT ![rank] = c.A_r]
  /\ written' = [written EXCEPT ![rank] = c.log]
  /\ wk_log' = wk_log \cup c.wk

\* calculate_nfurcation_fluxes(u_prev)
CalcNfurcation(rank) ==
  /\ pc[rank] = "nfurcation"
  /\ \E order \in Orders(get_active_vertex_ids(rank)) :
       \E c \in {calculate_nfurcation_fluxes(Cache(rank), rank, order, 1)} :
         StoreCache(rank, c)
  /\ phases_run' = [phases_run EXCEPT ![rank] = Append(@, "nfurcation")]
  /\ pc' = [pc EXCEPT ![rank] = NextPhase("nfurcation")]
  /\ UNCHANGED << config_vars, t_now, u_now, d_current_t,
                  d_Q_macro_edge_boundary_value,
                  d_A_macro_edge_boundary_value, ret >>

\* calculate_inout_fluxes(t, u_prev); the throw ends the worker's run.
CalcInout(rank) ==
  /\ pc[rank] = "inout"
  /\ \E order \in Orders(get_active_vertex_ids(rank)) :
       \E c \in {calculate_inout_fluxes(Cache(rank), rank, order, 1,
                                        t_now, u_now)} :
         /\ StoreCache(rank, c)
         /\ pc' = [pc EXCEPT ![rank] =
                     IF c.failed THEN "failed" ELSE NextPhase("inout")]
  /\ phases_run' = [phases_run EXCEPT ![rank] = Append(@, "inout")]
  /\ UNCHANGED << config_vars, t_now, u_now, d_current_t,
                  d_Q_macro_edge_boundary_value,
                  d_A_macro_edge_boundary_value, ret >>

\* A caller on a worker asks for the fluxes.  The accessors read nothing but
\* the worker's own evaluator, so where the other workers stand does not
\* matter to them: they are called while no worker is inside init.
GetFluxesOnMacroEdgeStamping(rank, t, e, u) ==
  /\ ret = NoCall
  /\ \A r \in Ranks : pc[r] \in {"ready", "done"}
  /\ ret' = [op |-> "get_fluxes_on_macro_edge", rank |-> rank, t |-> t,
             id |-> e, u |-> u, out |-> get_fluxes_on_macro_edge(rank, t, e, u)]
  /\ d_current_t' = [d_current_t EXCEPT ![rank] = t]
  /\ UNCHANGED << config_vars, t_now, u_now, pc,
                  d_Q_macro_edge_boundary_value,
                  d_A_macro_edge_boundary_value, flux_vars, phases_run,
                  written, wk_log >>

GetFluxesOnMacroEdge(rank, t, e, u) ==
  /\ ret = NoCall
  /\ \A r \in Ranks : pc[r] \in {"ready", "done"}
  /\ ret' = [op |-> "get_fluxes_on_macro_edge", rank |-> rank, t |-> t,
             id |-> e, u |-> u, out |-> get_fluxes_on_macro_edge(rank, t, e, u)]
  /\ UNCHANGED << config_vars, t_now, u_now, pc, evaluator_vars, phases_run,
                  written, wk_log >>

GetFluxesOnNfurcation(rank, t, v) ==
  /\ ret = NoCall
  /\ \A r \in Ranks : pc[r] \in {"ready", "done"}
  /\ ret' = [op |-> "get_fluxes_on_nfurcation", rank |-> rank, t |-> t,
             id |-> v, u |-> << >>, out |-> get_fluxes_on_nfurcation(rank, t, v)]
  /\ UNCHANGED << config_vars, t_now, u_now, pc, evaluator_vars, phases_run,
                  written, wk_log >>

\* The caller takes the result (or the error).
Return ==
  /\ ret # NoCall
  /\ ret' = NoCall
  /\ UNCHANGED << config_vars, t_now, u_now, pc, evaluator_vars, phases_run,
                  written, wk_log >>

Next ==
  \/ \E v \in VertexIds, kind \in FlowTypes \ {"Inner"} : SetBoundary(v, kind)
  \/ Finalize
  \/ \E n \in 1..MaxWorkers : Construct(n)
  \/ \E u \in Solutions : StartStep(u)
  \/ \E rank \in Ranks : InitExtract(rank)
  \/ \E rank \in Ranks : GhostQ(rank)
  \/ \E rank \in Ranks : GhostA(rank)
  \/ \E rank \in Ranks : CalcNfurcation(rank)
  \/ \E rank \in Ranks : CalcInout(rank)
  \/ \E rank \in Ranks, t \in TimeArgs, e \in EdgeIds, u \in Solutions :
       GetFluxesOnMacroEdge(rank, t, e, u)
  \/ \E rank \in Ranks, t \in TimeArgs, v \in VertexIds :
       GetFluxesOnNfurcation(rank, t, v)
  \/ Return

Spec == Init /\ [][Next]_vars

(***************************************************************************)
(* The Windkessel Newton loop of one leaf, run turn by turn: the loop of   *)
(* calculate_inout_fluxes on inputs (Q, A, p_c, orientation) drawn from a  *)
(* grid of quarter units and from the inputs the evaluator model meets.    *)
(***************************************************************************)
NewtonAreaSteps == 8

NewtonFlowSteps == 2

NewtonArgs ==
  [Q : {k * (Scale \div 4) : k \in (-NewtonFlowSteps)..NewtonFlowSteps},
   A : {k * (Scale \div 4) : k \in 0..NewtonAreaSteps},
   p_c : {0, Scale},
   is_in : BOOLEAN]
    \cup {[Q |-> x[1], A |-> x[2], p_c |-> x[3], is_in |-> x[4]] :
            x \in NewtonInputs}

NewtonInit ==
  /\ graph = 1
  /\ flow_type = [v \in VertexIds |-> "Inner"]
  /\ bcs = "open"
  /\ num_ranks = 0
  /\ edge_rank = << >>
  /\ t_now = NaN
  /\ u_now = << >>
  /\ pc = << >>
  /\ d_current_t = << >>
  /\ d_Q_macro_edge_boundary_value = << >>
  /\ d_A_macro_edge_boundary_value = << >>
  /\ d_Q_macro_edge_flux_l = << >>
  /\ d_Q_macro_edge_flux_r = << >>
  /\ d_A_macro_edge_flux_l = << >>
  /\ d_A_macro_edge_flux_r = << >>
  /\ phases_run = << >>
  /\ written = << >>
  /\ wk_log = {}
  /\ ret = NoCall
  /\ solver = NoSolver
  /\ solver_3d = NoSolver3D
  /\ \E args \in NewtonArgs :
       wk_loop = [phase |-> "loop", args |-> args,
                  st |-> NewtonStart(args.A), Q_out |-> NaN]

\* One turn of while (num_iter < 250 && error > TOL) { ... }
NewtonTurn ==
  /\ wk_loop.phase = "loop"
  /\ NewtonContinues(wk_loop.st.num_iter, wk_loop.st.error)
  /\ \E W \in {WindkesselInvariant(wk_loop.args.Q, wk_loop.args.A,
                                   wk_loop.args.is_in, PhysicalData)} :
       \E f_value \in {WkF(wk_loop.st.A_out, W, wk_loop.args.p_c,
                           PhysicalData)},
          df_value \in {WkDf(wk_loop.st.A_out, W, wk_loop.args.p_c,
                             PhysicalData)} :
         \E A_new \in {NewtonUpdate(wk_loop.st.A_out, f_value, df_value)} :
           \E f_new \in {WkF(A_new, W, wk_loop.args.p_c, PhysicalData)} :
             wk_loop' = [wk_loop EXCEPT !.st = NewtonAdvance(@, A_new, f_new)]
  /\ UNCHANGED << graph, flow_type, bcs, num_ranks, edge_rank, t_now, u_now,
                  pc, evaluator_vars, phases_run, written, wk_log, ret,
                  solver, solver_3d >>

\* The loop condition fails: Q_out is computed from the last iterate.
NewtonExit ==
  /\ wk_loop.phase = "loop"
  /\ ~NewtonContinues(wk_loop.st.num_iter, wk_loop.st.error)
  /\ wk_loop' =
       [wk_loop EXCEPT !.phase = "exit",
                       !.Q_out = WindkesselFlow(wk_loop.st.A_out,
                                                wk_loop.args.p_c,
                                                wk_loop.args.is_in,
                                                PhysicalData)]
  /\ UNCHANGED << graph, flow_type, bcs, num_ranks, edge_rank, t_now, u_now,
                  pc, evaluator_vars, phases_run, written, wk_log, ret,
                  solver, solver_3d >>

NewtonNext == NewtonTurn \/ NewtonExit

\* The loop is sequential code of one worker: it keeps running.
NewtonSpec == NewtonInit /\ [][NewtonNext]_vars /\ WF_vars(NewtonNext)

(***************************************************************************)
(* HeartToBreast3DSolver: the perfusion outlets the 3D solver stores       *)
(* (setup_1d3d_reg_source, step 1) and update_1d_data, called with the     *)
(* tip data of the 1D solver in every coupling step.                       *)
(***************************************************************************)
MaxOutlets == 2

\* VesselTipCurrentCouplingData: the point p, the radius and the pressure.
TipData(pressures) ==
  {[p |-> x, radius |-> x + 1, pressure |-> q] : x \in {0, 1}, q \in pressures}

RECURSIVE SeqsUpTo(_, _)
SeqsUpTo(S, n) ==
  IF n = 0 THEN {<< >>}
  ELSE SeqsUpTo(S, n - 1)
         \cup {Append(x, y) : x \in {z \in SeqsUpTo(S, n - 1) : Len(z) = n - 1},
                              y \in S}

\* The outlets passed at set-up: at least one, every pressure still zero.
SetupData == SeqsUpTo(TipData({0}), MaxOutlets) \ {<< >>}

\* The lists update_1d_data is called with: shorter than, as long as and
\* longer than the stored ones.
UpdateData == SeqsUpTo(TipData({1, 2}), MaxOutlets + 1)

\* The number of setup_1d3d calls the model makes on one solver.
MaxSetups == 2

\* perf_neigh_size_min, perf_neigh_size_max: the bounds of the ball radii.
perf_neigh_size_min == 1

perf_neigh_size_max == 4

\* The elements of the 3D mesh, each with one node at the position of its
\* number: the positions the outlet points take.
MeshElems == {0, 1}

\* The 3D solver as constructed: every per-outlet container is empty.
\* num_setups and num_perf_outlets remember the setup_1d3d calls made and
\* the size of the list of the last one; data_3d is what the last call of
\* get_vessel_tip_data_3d returned.
Solver3DConstructed ==
  [status |-> "running",
   data_1d |-> << >>,
   num_setups |-> 0,
   num_perf_outlets |-> 0,
   d_perf_pts |-> << >>,
   d_perf_radii |-> << >>,
   d_perf_pres |-> << >>,
   d_perf_pres_vein |-> << >>,
   d_perf_nut |-> << >>,
   d_perf_nut_vein |-> << >>,
   d_perf_ball_radii |-> << >>,
   d_perf_fns |-> << >>,
   d_perf_elems_3D |-> << >>,
   d_perf_coeff_a |-> << >>,
   d_perf_coeff_b |-> << >>,
   d_perf_p_3d_weighted |-> << >>,
   d_perf_nut_3d_weighted |-> << >>,
   data_3d |-> [called |-> FALSE, data |-> << >>]]

\* v.push_back(x) for every element x of xs.
PushBackAll(v, xs) == v \o xs

\* d_perf_ball_radii[i] = ball_r_min + (ball_r_max - ball_r_min)
\*                          * (r_i^3 - min_r3) / (max_r3 - min_r3),
\* with the extrema over every stored radius; 0 / 0 is not a number.
BallRadius(radii, i) ==
  LET r3 == [k \in DOMAIN radii |-> radii[k] * radii[k] * radii[k]]
      max_r3 == CHOOSE x \in {r3[k] : k \in DOMAIN r3} :
                  \A k \in DOMAIN r3 : r3[k] <= x
      min_r3 == CHOOSE x \in {r3[k] : k \in DOMAIN r3} :
                  \A k \in DOMAIN r3 : r3[k] >= x
  IN IF max_r3 = min_r3 THEN NaN
     ELSE perf_neigh_size_min
            + ((perf_neigh_size_max - perf_neigh_size_min) * (r3[i] - min_r3))
                \div (max_r3 - min_r3)

\* The ascending list of the elements of a set of element numbers.
RECURSIVE ElemList(_)
ElemList(S) ==
  IF S = {} THEN << >>
  ELSE LET x == CHOOSE y \in S : \A z \in S : y <= z
       IN << x >> \o ElemList(S \ {x})

\* The elements with a node inside the ball of the weight function fn
\* (dx.norm() < d_r - 1.e-10 is false for a radius that is not a number).
ElemsInBall(fn) ==
  ElemList({x \in MeshElems :
              ~IsNaN(fn.d_r) /\ Abs(fn.center - x) < fn.d_r})

\* comm_local_to_global(local, global) on one process: global is resized
\* to the size of local and holds the sum over the processes.
comm_local_to_global(local) == local

\* setup_1d3d_reg_source: exit on an empty list; step 1 pushes one entry
\* per outlet of data_1d onto every per-outlet vector; step 2 sets the
\* ball radii and pushes the weight functions; step 3 resizes the element
\* lists to the size of data_1d and fills them; the coefficients (unit
\* conductivity, unit volume per element, the 3D fields at zero) are
\* gathered into vectors of the size of data_1d.
setup_1d3d_reg_source(s, data_1d) ==
  IF Len(data_1d) = 0 THEN [s EXCEPT !.status = "exited"]
  ELSE LET n == Len(data_1d)
           pts == PushBackAll(s.d_perf_pts, [i \in 1..n |-> data_1d[i].p])
           radii == PushBackAll(s.d_perf_radii,
                                [i \in 1..n |-> data_1d[i].radius])
           pushed == PushBackAll(s.d_perf_ball_radii, [i \in 1..n |-> 0])
           ball == [i \in DOMAIN pushed |->
                      IF i <= n THEN BallRadius(radii, i) ELSE pushed[i]]
           fns == PushBackAll(s.d_perf_fns,
                              [i \in 1..n |-> [center |-> pts[i],
                                               d_r |-> ball[i]]])
           elems == [I \in 1..n |-> ElemsInBall(fns[I])]
       IN [s EXCEPT
             !.data_1d = data_1d,
             !.num_setups = @ + 1,
             !.num_perf_outlets = n,
             !.d_perf_pts = pts,
             !.d_perf_radii = radii,
             !.d_perf_pres =
                PushBackAll(@, [i \in 1..n |-> data_1d[i].pressure]),
             !.d_perf_pres_vein = PushBackAll(@, [i \in 1..n |-> 40000]),
             !.d_perf_nut = PushBackAll(@, [i \in 1..n |-> 1]),
             !.d_perf_nut_vein = PushBackAll(@, [i \in 1..n |-> 0]),
             !.d_perf_ball_radii = ball,
             !.d_perf_fns = fns,
             !.d_perf_elems_3D = elems,
             !.d_perf_coeff_a =
                comm_local_to_global([I \in 1..n |-> Len(elems[I])]),
             !.d_perf_coeff_b = comm_local_to_global([I \in 1..n |-> 0]),
             !.d_perf_p_3d_weighted =
                comm_local_to_global([I \in 1..n |-> 0]),
             !.d_perf_nut_3d_weighted =
                comm_local_to_global([I \in 1..n |-> 0])]

\* VesselTipCurrentCouplingData3D of outlet i.
TipData3D(s, i) ==
  [d_a |-> s.d_perf_coeff_a[i], d_b |-> s.d_perf_coeff_b[i],
   d_p_3d_w |-> s.d_perf_p_3d_weighted[i],
   d_nut_3d_w |-> s.d_perf_nut_3d_weighted[i]]

\* std::vector<...> data; for (i < d_perf_pts.size()) { ...3D d; d.d_a =
\* d_perf_coeff_a[i]; ... }  return data;  -- d is never added to data.
get_vessel_tip_data_3d(s) == << >>

\* The loop of get_vessel_tip_data_3d reads d_perf_coeff_a[i] for every
\* i < d_perf_pts.size(): past the end of a shorter coefficient vector the
\* read is undefined, and the call returns or the process dies.
TipDataOutcomes(s) ==
  IF Len(s.d_perf_pts) > Len(s.d_perf_coeff_a)
  THEN {"returned", "crashed"}
  ELSE {"returned"}

\* Without the comparison of the sizes the loop writes the entries it finds.
update_1d_data_unchecked(s, data_1d) ==
  [s EXCEPT
     !.d_perf_pres = [i \in DOMAIN @ |->
                        IF i <= Len(data_1d) THEN data_1d[i].pressure ELSE @[i]]]

\* if (d_perf_pts.size() != data_1d.size()) exit(EXIT_FAILURE);
\* for (i < data_1d.size()) { d_perf_pres[i] = data_1d[i].pressure; ... }
update_1d_data(s, data_1d) ==
  IF Len(s.d_perf_pts) # Len(data_1d) THEN [s EXCEPT !.status = "exited"]
  ELSE [s EXCEPT
          !.d_perf_pres = [i \in DOMAIN @ |->
                             IF i <= Len(data_1d) THEN data_1d[i].pressure
                             ELSE @[i]],
          !.d_perf_pres_vein = [i \in DOMAIN @ |->
                                  IF i <= Len(data_1d) THEN 40000 ELSE @[i]],
          !.d_perf_nut = [i \in DOMAIN @ |->
                            IF i <= Len(data_1d) THEN 1 ELSE @[i]],
          !.d_perf_nut_vein = [i \in DOMAIN @ |->
                                 IF i <= Len(data_1d) THEN 0 ELSE @[i]]]

\* The 3D solver, set up with its outlets; no graph of the 1D solver built.
CouplingInit ==
  /\ graph = 1
  /\ flow_type = [v \in VertexIds |-> "Inner"]
  /\ bcs = "open"
  /\ num_ranks = 0
  /\ edge_rank = << >>
  /\ t_now = NaN
  /\ u_now = << >>
  /\ pc = << >>
  /\ d_current_t = << >>
  /\ d_Q_macro_edge_boundary_value = << >>
  /\ d_A_macro_edge_boundary_value = << >>
  /\ d_Q_macro_edge_flux_l = << >>
  /\ d_Q_macro_edge_flux_r = << >>
  /\ d_A_macro_edge_flux_l = << >>
  /\ d_A_macro_edge_flux_r = << >>
  /\ phases_run = << >>
  /\ written = << >>
  /\ wk_log = {}
  /\ ret = NoCall
  /\ wk_loop = NoLoop
  /\ solver = NoSolver
  /\ \E data_1d \in SetupData :
       solver_3d = setup_1d3d_reg_source(Solver3DConstructed, data_1d)

\* solver_3d.update_1d_data(data_1d); the process ends at exit().
Update1dData(data_1d) ==
  /\ solver_3d.status = "running"
  /\ solver_3d' = [update_1d_data(solver_3d, data_1d) EXCEPT !.data_1d = data_1d]
  /\ UNCHANGED << graph, flow_type, bcs, num_ranks, edge_rank, t_now, u_now,
                  pc, evaluator_vars, phases_run, written, wk_log, ret,
                  wk_loop, solver >>

CouplingNext == \E data_1d \in UpdateData : Update1dData(data_1d)

CouplingSpec == CouplingInit /\ [][CouplingNext]_vars

(***************************************************************************)
(* The 3D solver driven through its coupling interface: setup_1d3d (also   *)
(* with an empty list, and more than once), update_1d_data and             *)
(* get_vessel_tip_data_3d, in any order.                                   *)
(***************************************************************************)
SetupInit ==
  /\ graph = 1
  /\ flow_type = [v \in VertexIds |-> "Inner"]
  /\ bcs = "open"
  /\ num_ranks = 0
  /\ edge_rank = << >>
  /\ t_now = NaN
  /\ u_now = << >>
  /\ pc = << >>
  /\ d_current_t = << >>
  /\ d_Q_macro_edge_boundary_value = << >>
  /\ d_A_macro_edge_boundary_value = << >>
  /\ d_Q_macro_edge_flux_l = << >>
  /\ d_Q_macro_edge_flux_r = << >>
  /\ d_A_macro_edge_flux_l = << >>
  /\ d_A_macro_edge_flux_r = << >>
  /\ phases_run = << >>
  /\ written = << >>
  /\ wk_log = {}
  /\ ret = NoCall
  /\ wk_loop = NoLoop
  /\ solver = NoSolver
  /\ solver_3d = Solver3DConstructed

\* solver_3d.setup_1d3d(data_1d)
Setup1d3d(data_1d) ==
  /\ solver_3d.status = "running"
  /\ solver_3d.num_setups < MaxSetups
  /\ solver_3d' = setup_1d3d_reg_source(solver_3d, data_1d)
  /\ UNCHANGED << graph, flow_type, bcs, num_ranks, edge_rank, t_now, u_now,
                  pc, evaluator_vars, phases_run, written, wk_log, ret,
                  wk_loop, solver >>

\* auto data_3d = solver_3d.get_vessel_tip_data_3d();
GetVesselTipData3d ==
  /\ solver_3d.status = "running"
  /\ solver_3d.num_setups > 0
  /\ \E outcome \in TipDataOutcomes(solver_3d) :
       solver_3d' =
         IF outcome = "crashed" THEN [solver_3d EXCEPT !.status = "crashed"]
         ELSE [solver_3d EXCEPT
                 !.data_3d = [called |-> TRUE,
                              data |-> get_vessel_tip_data_3d(solver_3d)]]
  /\ UNCHANGED << graph, flow_type, bcs, num_ranks, edge_rank, t_now, u_now,
                  pc, evaluator_vars, phases_run, written, wk_log, ret,
                  wk_loop, solver >>

SetupNext ==
  \/ \E data_1d \in SetupData \cup {<< >>} : Setup1d3d(data_1d)
  \/ \E data_1d \in UpdateData : Update1dData(data_1d)
  \/ GetVesselTipData3d

SetupSpec == SetupInit /\ [][SetupNext]_vars

(***************************************************************************)
(* ExplicitNonlinearFlowSolver, the consumer of the evaluator, and the     *)
(* loop that drives it: solver.solve(tau, t); t += tau.  One call of solve *)
(* calls init(t, u) on every worker and then updates every macro-edge in   *)
(* place, each worker its own edges, from the fluxes of the accessor.      *)
(***************************************************************************)
\* The cell mean (first basis function) of component c on micro-edge m of e.
MeanDof(e, m, c) == dof_indices(e, m, c)[0]

\* The update of the edges of S by the flux differences over each
\* micro-edge: dQ = -(tau / h) dF_Q, dA = -(tau / h) dF_A with tau / h = 1/4.
AdvanceDofs(u, S, fluxes) ==
  [i \in DOMAIN u |->
     IF \E x \in S, m \in 0..(NumMicroEdges - 1) : i = MeanDof(x, m, 0)
     THEN LET m == CHOOSE m \in 0..(NumMicroEdges - 1) :
                     \E x \in S : i = MeanDof(x, m, 0)
          IN u[i] - Quot(fluxes.A_up[m + 1] - fluxes.A_up[m], 4)
     ELSE IF \E x \in S, m \in 0..(NumMicroEdges - 1) : i = MeanDof(x, m, 1)
     THEN LET m == CHOOSE m \in 0..(NumMicroEdges - 1) :
                     \E x \in S : i = MeanDof(x, m, 1)
          IN u[i] - Quot(fluxes.Q_up[m + 1] - fluxes.Q_up[m], 4)
     ELSE u[i]]

AdvanceEveryEdge(u, e, fluxes) == AdvanceDofs(u, EdgeIds, fluxes)

\* The local update of macro-edge e: only the block of e is written.
AdvanceEdge(u, e, fluxes) == AdvanceDofs(u, {e}, fluxes)

\* ExplicitNonlinearFlowSolver solver(comm, graph, dof_map, degree);
\* double t = 0;
SolverConstruct(u) ==
  /\ num_ranks > 0
  /\ solver = NoSolver
  /\ solver' = [phase |-> "idle", u |-> u, updated |-> {}, consumed |-> << >>]
  /\ t_now' = 0
  /\ UNCHANGED << graph, flow_type, bcs, num_ranks, edge_rank, u_now, pc,
                  evaluator_vars, phases_run, written, wk_log, ret, wk_loop,
                  solver_3d >>

\* solver.solve(tau, t) begins: every worker calls init(t, u).
SolveBegin ==
  /\ solver.phase = "idle"
  /\ t_now <= MaxT
  /\ solver' = [solver EXCEPT !.phase = "step", !.updated = {},
                              !.consumed = << >>]
  /\ u_now' = solver.u
  /\ pc' = [rank \in Ranks |-> "extract"]
  /\ phases_run' = [rank \in Ranks |-> << >>]
  /\ written' = [rank \in Ranks |-> {}]
  /\ UNCHANGED << graph, flow_type, bcs, num_ranks, edge_rank, t_now,
                  evaluator_vars, wk_log, ret, wk_loop, solver_3d >>

\* A worker whose init has returned updates one of its edges from the
\* fluxes get_fluxes_on_macro_edge gives for the vector being advanced.
UpdateEdge(rank, e) ==
  /\ solver.phase = "step"
  /\ pc[rank] = "done"
  /\ edge_rank[e] = rank
  /\ e \notin solver.updated
  /\ \E fluxes \in {get_fluxes_on_macro_edge(rank, t_now, e, solver.u)} :
       solver' = IF fluxes.error THEN [solver EXCEPT !.phase = "failed"]
                 ELSE [solver EXCEPT !.u = AdvanceEdge(@, e, fluxes),
                                     !.updated = @ \cup {e},
                                     !.consumed = (e :> fluxes) @@ @]
  /\ UNCHANGED << graph, flow_type, bcs, num_ranks, edge_rank, t_now, u_now,
                  pc, evaluator_vars, phases_run, written, wk_log, ret,
                  wk_loop, solver_3d >>

\* solve returns on every worker; t += tau.
SolveEnd ==
  /\ solver.phase = "step"
  /\ \A rank \in Ranks : pc[rank] = "done"
  /\ solver.updated = EdgeIds
  /\ solver' = [solver EXCEPT !.phase = "idle"]
  /\ t_now' = t_now + 1
  /\ UNCHANGED << graph, flow_type, bcs, num_ranks, edge_rank, u_now, pc,
                  evaluator_vars, phases_run, written, wk_log, ret, wk_loop,
                  solver_3d >>

StepperNext ==
  \/ \E v \in VertexIds, kind \in FlowTypes \ {"Inner"} : SetBoundary(v, kind)
  \/ Finalize
  \/ \E n \in 1..MaxWorkers : Construct(n)
  \/ \E u \in Solutions : SolverConstruct(u)
  \/ SolveBegin
  \/ \E rank \in Ranks : InitExtract(rank)
  \/ \E rank \in Ranks : GhostQ(rank)
  \/ \E rank \in Ranks : GhostA(rank)
  \/ \E rank \in Ranks : CalcNfurcation(rank)
  \/ \E rank \in Ranks : CalcInout(rank)
  \/ \E rank \in Ranks, e \in EdgeIds : UpdateEdge(rank, e)
  \/ SolveEnd

StepperSpec == Init /\ [][StepperNext]_vars

(***************************************************************************)
(* Properties.                                                             *)
(***************************************************************************)

\* C1: a call of get_fluxes_on_macro_edge or get_fluxes_on_nfurcation fails,
\* and returns no flux values, whenever its time argument differs from the
\* time of the most recent init call of the worker's evaluator (that is the
\* driver's time t_now once the worker has completed init, and no time at
\* all before the first init); it succeeds only for that time.
AccessorTimeGuard ==
  ret.op # "none" =>
    /\ ret.out.error <=> ~(pc[ret.rank] = "done" /\ ret.t = t_now)
    /\ ret.out.error => ret.out.Q_up = << >> /\ ret.out.A_up = << >>
    /\ ~ret.out.error => ret.out.Q_up # << >> /\ ret.out.A_up # << >>

\* An accessor call after a completed init, for another time: it has failed.
AccessorCalledForOtherTime ==
  /\ ret.op # "none"
  /\ pc[ret.rank] = "done"
  /\ ret.t \in Times
  /\ ret.t # t_now
  /\ ret.out.error

\* C2: within one init call the steps run in the order extraction, exchange
\* of the Q buffer, exchange of the A buffer, bifurcation resolution, leaf
\* resolution; a worker at or past a vertex resolution has completed both
\* exchanges of this call, and a completed call has run all five steps.
InitStepOrder ==
  \A rank \in Ranks :
    LET order == <<"extract", "ghostQ", "ghostA", "nfurcation", "inout">>
        ran == phases_run[rank]
    IN /\ Len(ran) <= Len(order)
       /\ \A k \in DOMAIN ran : ran[k] = order[k]
       /\ pc[rank] \in {"nfurcation", "inout"} => Len(ran) >= 3
       /\ pc[rank] \in {"done", "failed"} => ran = order

\* A worker with a ghost edge has completed an init call.
InitCompletedWithGhosts ==
  \E rank \in Ranks :
    /\ pc[rank] = "done"
    /\ get_ghost_edge_ids(rank) # {}
    /\ phases_run[rank] = <<"extract", "ghostQ", "ghostA", "nfurcation", "inout">>

\* C3: the exchange is a blocking collective and delivers fresh values: once
\* a worker is at or past the vertex resolutions of a step, every worker has
\* completed its extraction of this step (has reached the exchange), and
\* the boundary values (Q, A) the worker holds for every edge at a vertex it
\* resolves, whoever owns the edge, are the values of the step's solution
\* u_now at that end of the edge.
FreshBoundaryValues ==
  \A rank \in Ranks :
    (\/ pc[rank] \in {"nfurcation", "inout"}
     \/ \E k \in DOMAIN phases_run[rank] : phases_run[rank][k] = "nfurcation")
    =>
    /\ \A r \in Ranks :
         \E k \in DOMAIN phases_run[r] : phases_run[r][k] = "extract"
    /\ \A v \in get_active_vertex_ids(rank) :
         (is_leaf(v) \/ is_bifurcation(v)) =>
           \A k \in DOMAIN get_edge_neighbors(v) :
             LET e == get_edge_neighbors(v)[k]
                 side == IF is_pointing_to(e, v) THEN 1 ELSE 0
             IN /\ d_Q_macro_edge_boundary_value[rank][2 * e + side]
                     = EdgeBoundaryValue(u_now, e, side, 0)
                /\ d_A_macro_edge_boundary_value[rank][2 * e + side]
                     = EdgeBoundaryValue(u_now, e, side, 1)

\* In the second step, with a solution other than that of the first step, a
\* worker is about to resolve a vertex one of whose edges another worker owns.
ResolvingWithGhostValues ==
  \E rank \in Ranks :
    /\ pc[rank] = "nfurcation"
    /\ t_now = 1
    /\ \E v \in get_active_vertex_ids(rank) :
         /\ is_bifurcation(v)
         /\ \E k \in DOMAIN get_edge_neighbors(v) :
              /\ edge_rank[get_edge_neighbors(v)[k]] # rank
              /\ d_Q_macro_edge_boundary_value[rank]
                   [BoundarySlot(get_edge_neighbors(v)[k], v)] # 0

\* C4 (as stated): when init has returned on a worker, every left/right
\* boundary value and every left/right flux entry of every edge has been
\* written during this call.
WholeCacheRewritten ==
  \A rank \in Ranks :
    pc[rank] = "done" =>
      /\ \A i \in 0..(2 * num_edges - 1) : <<"bv", i>> \in written[rank]
      /\ \A e \in EdgeIds :
           /\ \E v \in VertexIds : <<"flux_l", e, v>> \in written[rank]
           /\ \E v \in VertexIds : <<"flux_r", e, v>> \in written[rank]

\* C4 (amended): init writes the boundary values of the worker's active and
\* ghost edges, and the flux entry at an end of an edge exactly when the
\* vertex at that end is active on the worker and is a leaf or a
\* bifurcation; when init has returned these and no other entries have been
\* written during the call, and every other entry is never written by any
\* call: it holds its construction-time value for good.
ResolvedCacheRewritten ==
  \A rank \in Ranks :
    LET exchanged ==
          {i \in 0..(2 * num_edges - 1) :
             (i \div 2) \in get_active_edge_ids(rank)
                              \cup get_ghost_edge_ids(rank)}
        resolved ==
          {v \in get_active_vertex_ids(rank) : is_leaf(v) \/ is_bifurcation(v)}
        left == {e \in EdgeIds : get_vertex_neighbors(e)[1] \in resolved}
        right == {e \in EdgeIds : get_vertex_neighbors(e)[2] \in resolved}
    IN /\ pc[rank] = "done" =>
            written[rank] =
              {<<"bv", i>> : i \in exchanged}
                \cup {<<"flux_l", e, get_vertex_neighbors(e)[1]>> : e \in left}
                \cup {<<"flux_r", e, get_vertex_neighbors(e)[2]>> : e \in right}
       /\ \A i \in (0..(2 * num_edges - 1)) \ exchanged :
            /\ d_Q_macro_edge_boundary_value[rank][i] = 0
            /\ d_A_macro_edge_boundary_value[rank][i] = 0
       /\ \A e \in EdgeIds \ left :
            /\ d_Q_macro_edge_flux_l[rank][e] = 0
            /\ d_A_macro_edge_flux_l[rank][e] = 0
       /\ \A e \in EdgeIds \ right :
            /\ d_Q_macro_edge_flux_r[rank][e] = 0
            /\ d_A_macro_edge_flux_r[rank][e] = 0

\* The second init call has returned on a worker that has written entries
\* and has left others alone: the flux at a vertex of degree two, or the
\* boundary values of an edge of another worker far from its vertices.
SecondInitLeftEntriesAlone ==
  \E rank \in Ranks :
    /\ pc[rank] = "done"
    /\ t_now = 1
    /\ written[rank] # {}
    /\ \/ \E i \in 0..(2 * num_edges - 1) : <<"bv", i>> \notin written[rank]
       \/ \E e \in get_active_edge_ids(rank) :
            \A v \in VertexIds : <<"flux_l", e, v>> \notin written[rank]

\* C5: vertex resolutions of one init call are independent.  A resolution
\* writes only the flux entry at its own end of an incident edge (the right
\* entry of an edge pointing to the vertex, the left entry of an edge
\* leaving it), no flux entry is written by two vertices, and each of the
\* two resolution loops comes to the same end for every order in which it
\* visits the worker's active vertices, reading the buffers as they were
\* when the loop began: it raises an error for every order or for none, and
\* a loop that raises none leaves the same flux cache and has performed the
\* same Windkessel resolutions.
VertexResolutionsIndependent ==
  /\ [](\A rank \in Ranks : \A w \in written[rank] :
          w[1] # "bv" =>
            /\ w[3] \in get_active_vertex_ids(rank)
            /\ w[1] = "flux_r" => get_vertex_neighbors(w[2])[2] = w[3]
            /\ w[1] = "flux_l" => get_vertex_neighbors(w[2])[1] = w[3]
            /\ \A x \in written[rank] :
                 (x[1] = w[1] /\ x[2] = w[2]) => x[3] = w[3])
  /\ [][\A rank \in Ranks :
          LET after == [Q_l |-> d_Q_macro_edge_flux_l'[rank],
                        Q_r |-> d_Q_macro_edge_flux_r'[rank],
                        A_l |-> d_A_macro_edge_flux_l'[rank],
                        A_r |-> d_A_macro_edge_flux_r'[rank],
                        log |-> written'[rank]]
              same(c) == after = [Q_l |-> c.Q_l, Q_r |-> c.Q_r,
                                  A_l |-> c.A_l, A_r |-> c.A_r,
                                  log |-> c.log]
          IN /\ (pc[rank] = "nfurcation" /\ pc'[rank] # "nfurcation") =>
                  \A order \in Orders(get_active_vertex_ids(rank)) :
                    same(calculate_nfurcation_fluxes(Cache(rank), rank,
                                                     order, 1))
             /\ (pc[rank] = "inout" /\ pc'[rank] # "inout") =>
                  \A order \in Orders(get_active_vertex_ids(rank)) :
                    LET c == calculate_inout_fluxes(Cache(rank), rank, order,
                                                    1, t_now, u_now)
                    IN /\ c.failed <=> pc'[rank] = "failed"
                       /\ ~c.failed => same(c) /\ wk_log' = wk_log \cup c.wk
       ]_vars

\* A worker with at least two vertices to resolve in each loop (two
\* bifurcations or leaves among three active vertices) has completed init.
SeveralVerticesResolved ==
  \E rank \in Ranks :
    /\ pc[rank] = "done"
    /\ \E v1, v2 \in get_active_vertex_ids(rank) :
         /\ v1 # v2
         /\ is_leaf(v1)
         /\ is_leaf(v2) \/ is_bifurcation(v2)
         /\ \E e \in EdgeIds : <<"flux_l", e, v1>> \in written[rank]
         /\ \E e \in EdgeIds : <<"flux_r", e, v2>> \in written[rank]

\* C6 (as stated): once finalize_boundary_conditions has succeeded, no init
\* call of any worker fails with a boundary-type error, whatever boundary
\* kinds the leaf vertices carry.
NoBoundaryTypeErrorAfterFinalize ==
  bcs = "finalized" => \A rank \in Ranks : pc[rank] # "failed"

\* C7: finalize_boundary_conditions fails exactly when some vertex of degree
\* one has no boundary assignment or some vertex of degree three or more is
\* not classified as a bifurcation (Inner), and succeeds otherwise; after
\* it has run, every vertex carries one classification of the data model,
\* which no longer changes: after a success every leaf is assigned and
\* every vertex of degree three or more is a bifurcation.
FinalizeOutcome ==
  LET unassigned == {v \in VertexIds :
                       Degree(graph, v) = 1 /\ flow_type[v] = "Inner"}
      misplaced == {v \in VertexIds :
                      Degree(graph, v) >= 3 /\ flow_type[v] # "Inner"}
  IN /\ \A v \in VertexIds : flow_type[v] \in FlowTypes
     /\ bcs \in {"open", "finalized", "error"}
     /\ bcs = "error" => unassigned # {} \/ misplaced # {}
     /\ bcs = "finalized" => unassigned = {} /\ misplaced = {}
     /\ num_ranks > 0 => bcs = "finalized"

\* finalize has failed on a graph all of whose leaves are assigned: a vertex
\* of degree three carries a boundary kind.
FinalizeRejectedBifurcation ==
  /\ bcs = "error"
  /\ \A v \in VertexIds : Degree(graph, v) = 1 => flow_type[v] # "Inner"

\* C8: the Windkessel Newton loop takes at most 250 turns on every input
\* and then exits, with the state the evaluator's resolution computes for
\* that input.
NewtonLoopTerminates ==
  /\ [](wk_loop.phase # "off" =>
          /\ wk_loop.st.num_iter <= MaxNewtonIter
          /\ wk_loop.phase = "exit" =>
               wk_loop.st = WindkesselSolve(wk_loop.args.Q, wk_loop.args.A,
                                            wk_loop.args.p_c,
                                            wk_loop.args.is_in, PhysicalData))
  /\ <>(wk_loop.phase = "exit")

\* The loop has exited at the cap, the tolerance not met.
NewtonLoopExitedAtCap ==
  /\ wk_loop.phase = "exit"
  /\ wk_loop.st.num_iter = MaxNewtonIter
  /\ DoubleGt(wk_loop.st.error, TOL)

\* C9: Newton non-convergence raises no error and does not stop init.  An
\* init call fails only at a leaf of a kind the leaf loop does not handle;
\* when init has returned, the flux entry of every active leaf has been
\* written in this call, and the entry of a Windkessel leaf holds the last
\* iterate A_out of its Newton loop and the Q_out derived from it, whether
\* or not the loop met the tolerance.
NonConvergenceAbsorbed ==
  \A rank \in Ranks :
    /\ pc[rank] = "failed" =>
         \E v \in get_active_vertex_ids(rank) :
           /\ Degree(graph, v) = 1
           /\ flow_type[v] \notin
                {"InflowPrescribed", "FreeOutflow", "WindkesselOutflow"}
    /\ pc[rank] = "done" =>
         \A v \in get_active_vertex_ids(rank) :
           Degree(graph, v) = 1 =>
             LET e == get_edge_neighbors(v)[1]
                 is_in == get_vertex_neighbors(e)[2] = v
                 slot == IF is_in THEN 2 * e + 1 ELSE 2 * e
                 last == WindkesselSolve(
                           d_Q_macro_edge_boundary_value[rank][slot],
                           d_A_macro_edge_boundary_value[rank][slot],
                           u_now[vertex_dof_indices(v)[1]], is_in,
                           PhysicalData)
                 Q_out == WindkesselFlow(last.A_out,
                                         u_now[vertex_dof_indices(v)[1]],
                                         is_in, PhysicalData)
             IN /\ <<IF is_in THEN "flux_r" ELSE "flux_l", e, v>>
                     \in written[rank]
                /\ flow_type[v] = "WindkesselOutflow" =>
                     IF is_in
                     THEN /\ d_A_macro_edge_flux_r[rank][e] = last.A_out
                          /\ d_Q_macro_edge_flux_r[rank][e] = Q_out
                     ELSE /\ d_A_macro_edge_flux_l[rank][e] = last.A_out
                          /\ d_Q_macro_edge_flux_l[rank][e] = Q_out

\* init has returned on a worker with two leaves, one of them a Windkessel
\* leaf whose Newton loop ended at the cap without meeting the tolerance.
InitReturnedAfterNonConvergence ==
  \E rank \in Ranks :
    /\ pc[rank] = "done"
    /\ \E v1, v2 \in get_active_vertex_ids(rank) :
         /\ v1 # v2
         /\ is_leaf(v1) /\ is_leaf(v2)
         /\ \E r \in wk_log :
              /\ r.vertex = v1
              /\ r.warned
              /\ DoubleGt(r.error, TOL)
              /\ r.p_c = u_now[vertex_dof_indices(v1)[1]]
              /\ r.A = d_A_macro_edge_boundary_value[rank]
                         [BoundarySlot(get_edge_neighbors(v1)[1], v1)]

\* C10: two Windkessel resolutions with the same boundary Q and A, the same
\* p_c and the same orientation (the vessel parameters being the same for
\* every edge) yield the same A_out and Q_out and take the same number of
\* Newton turns, whatever vertex, worker or step they belong to and
\* whatever the flux entry held before: the result of every resolution is
\* that of the Newton loop started at the measured A.
WindkesselDeterministic ==
  /\ \A r1, r2 \in wk_log :
       (r1.Q = r2.Q /\ r1.A = r2.A /\ r1.p_c = r2.p_c /\ r1.is_in = r2.is_in)
         => /\ r1.A_out = r2.A_out
            /\ r1.Q_out = r2.Q_out
            /\ r1.num_iter = r2.num_iter
  /\ \A r \in wk_log :
       LET cold == WindkesselSolve(r.Q, r.A, r.p_c, r.is_in, PhysicalData)
       IN /\ r.A_out = cold.A_out
          /\ r.num_iter = cold.num_iter
          /\ r.Q_out = WindkesselFlow(cold.A_out, r.p_c, r.is_in, PhysicalData)

\* The same inputs have been resolved twice, the flux entry holding the
\* construction-time value the first time and the first result the second.
ResolvedTwiceOverOldResult ==
  \E r1, r2 \in wk_log :
    /\ r1.Q = r2.Q /\ r1.A = r2.A /\ r1.p_c = r2.p_c /\ r1.is_in = r2.is_in
    /\ r1.vertex = r2.vertex
    /\ r1.A_flux = 0
    /\ r2.A_flux # 0
    /\ r2.A_flux = r1.A_out

\* C11: when init has returned, the upwinded Q cached at a prescribed-inflow
\* leaf's end of its edge is the waveform value at the time of the init
\* call, signed by orientation: +inflow(t) in the left flux of an edge
\* leaving the vertex, -inflow(t) in the right flux of an edge pointing to
\* it, whatever the solution vector of the step is.
InflowFluxIsSignedWaveform ==
  \A rank \in Ranks :
    pc[rank] = "done" =>
      \A v \in get_active_vertex_ids(rank) :
        (Degree(graph, v) = 1 /\ flow_type[v] = "InflowPrescribed") =>
          LET e == get_edge_neighbors(v)[1]
          IN IF get_vertex_neighbors(e)[2] = v
             THEN d_Q_macro_edge_flux_r[rank][e] = -((t_now + 1) * Scale)
             ELSE d_Q_macro_edge_flux_l[rank][e] = (t_now + 1) * Scale

\* The second init call has returned on a worker with two prescribed-inflow
\* leaves, one at each orientation, for a solution that is not at rest.
InflowResolvedBothOrientations ==
  \E rank \in Ranks :
    /\ pc[rank] = "done"
    /\ t_now = 1
    /\ u_now # Solution(0)
    /\ \E v1, v2 \in get_active_vertex_ids(rank) :
         /\ is_leaf(v1) /\ is_leaf(v2)
         /\ is_inflow(v1) /\ is_inflow(v2)
         /\ is_pointing_to(get_edge_neighbors(v1)[1], v1)
         /\ ~is_pointing_to(get_edge_neighbors(v2)[1], v2)

\* C12: when init has returned, a free-outflow leaf whose edge has the rest
\* state (Q = 0, A = A0) as boundary values at the leaf's end holds the
\* upwinded pair (Q, A) = (0, A0) at that end, for both orientations.
FreeOutflowKeepsRest ==
  \A rank \in Ranks :
    pc[rank] = "done" =>
      \A v \in get_active_vertex_ids(rank) :
        (Degree(graph, v) = 1 /\ flow_type[v] = "FreeOutflow") =>
          LET e == get_edge_neighbors(v)[1]
              is_in == get_vertex_neighbors(e)[2] = v
              slot == IF is_in THEN 2 * e + 1 ELSE 2 * e
          IN (/\ d_Q_macro_edge_boundary_value[rank][slot] = 0
              /\ d_A_macro_edge_boundary_value[rank][slot] = PhysicalData.A0)
             => IF is_in
                THEN /\ d_Q_macro_edge_flux_r[rank][e] = 0
                     /\ d_A_macro_edge_flux_r[rank][e] = PhysicalData.A0
                ELSE /\ d_Q_macro_edge_flux_l[rank][e] = 0
                     /\ d_A_macro_edge_flux_l[rank][e] = PhysicalData.A0

\* init has returned, for the solution at rest, on a worker with a
\* free-outflow leaf at each orientation whose boundary values are the rest
\* state.
FreeOutflowResolvedAtRest ==
  \E rank \in Ranks :
    /\ pc[rank] = "done"
    /\ t_now = 1
    /\ u_now = Solution(0)
    /\ \E v1, v2 \in get_active_vertex_ids(rank) :
         /\ is_leaf(v1) /\ is_leaf(v2)
         /\ is_free_outflow(v1) /\ is_free_outflow(v2)
         /\ is_pointing_to(get_edge_neighbors(v1)[1], v1)
         /\ ~is_pointing_to(get_edge_neighbors(v2)[1], v2)
         /\ d_A_macro_edge_boundary_value[rank]
              [BoundarySlot(get_edge_neighbors(v1)[1], v1)] = PhysicalData.A0
         /\ d_Q_macro_edge_boundary_value[rank]
              [BoundarySlot(get_edge_neighbors(v2)[1], v2)] = 0

\* C13: once a worker has run the bifurcation resolution, the upwinded Q
\* cached at the junction ends of the edges of each of its vertices of
\* degree three or more add up to zero, each signed as oriented into the
\* junction (the right flux of an edge pointing to the vertex counts
\* positive, the left flux of an edge leaving it negative), up to one unit
\* of the fixed-point grid per vessel.
BifurcationConservesFlow ==
  \A rank \in Ranks :
    Len(phases_run[rank]) >= 4 =>
      \A v \in get_active_vertex_ids(rank) :
        Degree(graph, v) >= 3 =>
          LET e == get_edge_neighbors(v)
              into(k) == IF get_vertex_neighbors(e[k])[2] = v
                         THEN d_Q_macro_edge_flux_r[rank][e[k]]
                         ELSE -d_Q_macro_edge_flux_l[rank][e[k]]
              total == SeqSum([k \in DOMAIN e |-> into(k)], 1)
          IN -Len(e) <= total /\ total <= Len(e)

\* A worker that does not own every edge of a three-vessel junction has
\* resolved it to fluxes that are not all zero, and has returned from init.
JunctionResolvedWithFlow ==
  \E rank \in Ranks :
    /\ pc[rank] = "done"
    /\ \E v \in get_active_vertex_ids(rank) :
         /\ Len(get_edge_neighbors(v)) = 3
         /\ \E k \in 1..3 : edge_rank[get_edge_neighbors(v)[k]] # rank
         /\ \E k \in 1..3 :
              d_Q_macro_edge_flux_l[rank][get_edge_neighbors(v)[k]] > Scale \div 8

\* C14: the resolution of a vertex commutes with the reversal of an incident
\* edge.  When init has returned, for every resolved vertex and every edge
\* at it, resolving the vertex for the edge stored the other way round (the
\* vertex at the edge's other end slot, the same A, Q negated) gives the
\* cached upwinded A and the cached upwinded Q with its sign flipped at that
\* edge, and the cached pairs at the other edges of the vertex: in the
\* inflow, free-outflow and Windkessel branches and at bifurcations.
OrientationInvariance ==
  \A rank \in Ranks :
    pc[rank] = "done" =>
      \A v \in get_active_vertex_ids(rank) :
        LET e == get_edge_neighbors(v)
            is_in == [i \in DOMAIN e |-> is_pointing_to(e[i], v)]
            Q == ValuesAt(d_Q_macro_edge_boundary_value[rank], e, v)
            A == ValuesAt(d_A_macro_edge_boundary_value[rank], e, v)
            Q_flux == [i \in DOMAIN e |->
                         IF is_in[i] THEN d_Q_macro_edge_flux_r[rank][e[i]]
                         ELSE d_Q_macro_edge_flux_l[rank][e[i]]]
            A_flux == [i \in DOMAIN e |->
                         IF is_in[i] THEN d_A_macro_edge_flux_r[rank][e[i]]
                         ELSE d_A_macro_edge_flux_l[rank][e[i]]]
            p_c == u_now[vertex_dof_indices(v)[1]]
            wk == WindkesselSolve(Neg(Q[1]), A[1], p_c, ~is_in[1], PhysicalData)
            reversed_leaf ==
              IF is_inflow(v)
              THEN inflow_flux(t_now, ~is_in[1], Neg(Q[1]), A[1], PhysicalData)
              ELSE IF is_free_outflow(v)
              THEN free_outflow_flux(~is_in[1], Neg(Q[1]), A[1], PhysicalData)
              ELSE [Q_up |-> WindkesselFlow(wk.A_out, p_c, ~is_in[1],
                                            PhysicalData),
                    A_up |-> wk.A_out]
            reversed_at(k) ==
              solve_at_nfurcation([Q EXCEPT ![k] = Neg(@)], A,
                                  [is_in EXCEPT ![k] = ~@], PhysicalData)
        IN IF is_leaf(v)
           THEN reversed_leaf = [Q_up |-> Neg(Q_flux[1]), A_up |-> A_flux[1]]
           ELSE is_bifurcation(v) =>
                  \A k \in DOMAIN e :
                    reversed_at(k) = [Q_up |-> [Q_flux EXCEPT ![k] = Neg(@)],
                                      A_up |-> A_flux]

\* init has returned on a worker that resolved a bifurcation and a
\* Windkessel leaf, each to a flow that is not zero.
ResolvedWithFlowBothWays ==
  \E rank \in Ranks :
    /\ pc[rank] = "done"
    /\ \E v \in get_active_vertex_ids(rank) :
         /\ is_bifurcation(v)
         /\ \E k \in DOMAIN get_edge_neighbors(v) :
              d_Q_macro_edge_flux_l[rank][get_edge_neighbors(v)[k]] # 0
    /\ \E v \in get_active_vertex_ids(rank) :
         /\ is_leaf(v)
         /\ is_windkessel_outflow(v)
         /\ is_pointing_to(get_edge_neighbors(v)[1], v)
         /\ d_Q_macro_edge_flux_r[rank][get_edge_neighbors(v)[1]] # 0

Update1dDataOutcome ==
  [][LET data_1d == solver_3d'.data_1d
     IN IF Len(data_1d) # Len(solver_3d.d_perf_pts)
        THEN /\ solver_3d'.status = "exited"
             /\ solver_3d' = [solver_3d EXCEPT !.status = "exited",
                                               !.data_1d = data_1d]
        ELSE /\ solver_3d'.status = "running"
             /\ DOMAIN solver_3d'.d_perf_pres = DOMAIN data_1d
             /\ \A i \in DOMAIN data_1d :
                  solver_3d'.d_perf_pres[i] = data_1d[i].pressure
             /\ solver_3d'.d_perf_pts = solver_3d.d_perf_pts
             /\ solver_3d'.d_perf_radii = solver_3d.d_perf_radii]_vars

\* The process has ended in a call with a list longer than the two stored
\* outlets, after an earlier call had overwritten their pressures with
\* values that differ, passed with points other than the stored ones.
Update1dDataRejectedAfterOverwrite ==
  /\ solver_3d.status = "exited"
  /\ Len(solver_3d.d_perf_pts) = 2
  /\ Len(solver_3d.data_1d) > 2
  /\ solver_3d.d_perf_pres[1] # 0
  /\ solver_3d.d_perf_pres[1] # solver_3d.d_perf_pres[2]

NewtonUpdateHalfStep ==
  [][(wk_loop.phase = "loop" /\ wk_loop'.phase = "loop"
        /\ ~IsNaN(wk_loop'.st.A_out))
       => LET W == WindkesselInvariant(wk_loop.args.Q, wk_loop.args.A,
                                       wk_loop.args.is_in, PhysicalData)
              dx == Div(-WkF(wk_loop.st.A_out, W, wk_loop.args.p_c, PhysicalData),
                        WkDf(wk_loop.st.A_out, W, wk_loop.args.p_c, PhysicalData))
          IN wk_loop'.st.A_out = wk_loop.st.A_out + Quot(dx, 2)]_vars

\* C21 (amended): every Newton update whose result is a finite number
\* replaces A_out by A_out + 0.25 * (-f(A_out) / f'(A_out)): the relaxation
\* factor is 0.5 / 2.
NewtonUpdateQuarterStep ==
  [][(wk_loop.phase = "loop" /\ wk_loop'.phase = "loop"
        /\ ~IsNaN(wk_loop'.st.A_out))
       => LET W == WindkesselInvariant(wk_loop.args.Q, wk_loop.args.A,
                                       wk_loop.args.is_in, PhysicalData)
              dx == Div(-WkF(wk_loop.st.A_out, W, wk_loop.args.p_c, PhysicalData),
                        WkDf(wk_loop.st.A_out, W, wk_loop.args.p_c, PhysicalData))
          IN wk_loop'.st.A_out = wk_loop.st.A_out + Quot(dx, 4)]_vars

\* The loop has taken a turn that moved A_out away from the measured A.
NewtonUpdateMovedArea ==
  /\ wk_loop.phase = "loop"
  /\ wk_loop.st.num_iter = 1
  /\ ~IsNaN(wk_loop.st.A_out)
  /\ Abs(wk_loop.st.A_out - wk_loop.args.A) >= 2

\* C22: when the Newton loop has been left, the warning has been emitted if
\* and only if the tolerance is not met (the error is not a number that is
\* at most TOL).
WarningIffNotConverged ==
  wk_loop.phase = "exit" =>
    (wk_loop.st.warned <=>
       (IsNaN(wk_loop.st.error) \/ wk_loop.st.error > TOL))

\* C23: the interior micro-vertex fluxes a successful call of
\* get_fluxes_on_macro_edge returns are those of the solution vector given
\* to the init call that set the current time stamp (the vector the cached
\* end fluxes were resolved from), whatever u_prev the accessor is passed.
AccessorValuesFromInitVector ==
  (ret.op = "get_fluxes_on_macro_edge" /\ ~ret.out.error) =>
    \A m \in 1..(num_micro_vertices - 2) :
      /\ ret.out.Q_up[m] = InteriorFlux(ret.id, u_now, m).Q_up
      /\ ret.out.A_up[m] = InteriorFlux(ret.id, u_now, m).A_up

\* The pair the resolution of v computes for the i-th edge of v's neighbor
\* list from the boundary-value buffers of the worker: the junction solve at
\* a bifurcation, the boundary branch at a leaf.
ResolvedPair(rank, v, i) ==
  LET e == get_edge_neighbors(v)
      e_in == [k \in DOMAIN e |-> is_pointing_to(e[k], v)]
      Q_e == [k \in DOMAIN e |->
                IF e_in[k]
                THEN d_Q_macro_edge_boundary_value[rank][2 * e[k] + 1]
                ELSE d_Q_macro_edge_boundary_value[rank][2 * e[k]]]
      A_e == [k \in DOMAIN e |->
                IF e_in[k]
                THEN d_A_macro_edge_boundary_value[rank][2 * e[k] + 1]
                ELSE d_A_macro_edge_boundary_value[rank][2 * e[k]]]
  IN IF is_bifurcation(v)
     THEN LET up == solve_at_nfurcation(Q_e, A_e, e_in, PhysicalData)
          IN [Q_up |-> up.Q_up[i], A_up |-> up.A_up[i]]
     ELSE IF is_inflow(v)
     THEN inflow_flux(t_now, e_in[1], Q_e[1], A_e[1], PhysicalData)
     ELSE IF is_free_outflow(v)
     THEN free_outflow_flux(e_in[1], Q_e[1], A_e[1], PhysicalData)
     ELSE LET p_c == u_now[vertex_dof_indices(v)[1]]
              A_out == WindkesselSolve(Q_e[1], A_e[1], p_c, e_in[1],
                                       PhysicalData).A_out
          IN [Q_up |-> WindkesselFlow(A_out, p_c, e_in[1], PhysicalData),
              A_up |-> A_out]

\* C24: a successful call get_fluxes_on_nfurcation(t, v) for a vertex v the
\* worker has resolved in the current init (an active leaf or bifurcation)
\* returns, at position i, the pair the resolution of v computed for the
\* i-th edge of v's neighbor list from the boundary slot 2e+1 (e points to
\* v) or 2e (otherwise); the resolution of v wrote e's right flux when e
\* points to v and e's left flux otherwise, and not the other one.
OrientationConsistent ==
  (/\ ret.op = "get_fluxes_on_nfurcation"
   /\ ~ret.out.error
   /\ ret.id \in get_active_vertex_ids(ret.rank)
   /\ is_leaf(ret.id) \/ is_bifurcation(ret.id))
    => \A i \in DOMAIN get_edge_neighbors(ret.id) :
         LET e == get_edge_neighbors(ret.id)[i]
             pair == ResolvedPair(ret.rank, ret.id, i)
         IN /\ ret.out.Q_up[i] = pair.Q_up
            /\ ret.out.A_up[i] = pair.A_up
            /\ is_pointing_to(e, ret.id) =>
                 /\ <<"flux_r", e, ret.id>> \in written[ret.rank]
                 /\ <<"flux_l", e, ret.id>> \notin written[ret.rank]
            /\ ~is_pointing_to(e, ret.id) =>
                 /\ <<"flux_l", e, ret.id>> \in written[ret.rank]
                 /\ <<"flux_r", e, ret.id>> \notin written[ret.rank]

\* A successful call for a resolved bifurcation with edges of both
\* orientations, on a solution with flow at the junction.
NfurcationReadBothOrientations ==
  /\ ret.op = "get_fluxes_on_nfurcation"
  /\ ~ret.out.error
  /\ ret.id \in get_active_vertex_ids(ret.rank)
  /\ is_bifurcation(ret.id)
  /\ \E i, j \in DOMAIN get_edge_neighbors(ret.id) :
       /\ is_pointing_to(get_edge_neighbors(ret.id)[i], ret.id)
       /\ ~is_pointing_to(get_edge_neighbors(ret.id)[j], ret.id)
       /\ ret.out.Q_up[i] # 0
       /\ ret.out.Q_up[j] # 0

\* C25: in one init call every active vertex is resolved by at most one
\* branch.  The junction loop writes flux entries for the active vertices of
\* degree three or more only, one per incident edge, and runs no Windkessel
\* solve; the boundary loop writes flux entries for the active vertices of
\* degree one only, none of them an entry the junction loop has written in
\* this call, and it fails only at a leaf of a kind it has no branch for; a
\* boundary loop that returns has written exactly one entry per active leaf,
\* and only Windkessel leaves have a Windkessel solve on record.  No flux
\* entry is written for two vertices in one call.
OneBranchPerVertex ==
  [][\A rank \in Ranks :
       LET new == written'[rank] \ written[rank]
           active == get_active_vertex_ids(rank)
           flux(S) == {<<w[1], w[2]>> : w \in {x \in S : x[1] # "bv"}}
           handled == {"InflowPrescribed", "FreeOutflow", "WindkesselOutflow"}
       IN /\ (pc[rank] = "nfurcation" /\ pc'[rank] # "nfurcation") =>
               /\ \A w \in new : w[3] \in active /\ Degree(graph, w[3]) >= 3
               /\ \A v \in active :
                    Degree(graph, v) >= 3 =>
                      Cardinality({w \in new : w[3] = v}) = Degree(graph, v)
               /\ wk_log' = wk_log
          /\ (pc[rank] = "inout" /\ pc'[rank] # "inout") =>
               /\ \A w \in new : w[3] \in active /\ Degree(graph, w[3]) = 1
               /\ flux(new) \cap flux(written[rank]) = {}
               /\ pc'[rank] = "failed" =>
                    \E v \in active :
                      Degree(graph, v) = 1 /\ flow_type[v] \notin handled
               /\ pc'[rank] # "failed" =>
                    \A v \in active :
                      Degree(graph, v) = 1 =>
                        Cardinality({w \in new : w[3] = v}) = 1
               /\ \A rec \in wk_log' :
                    /\ Degree(graph, rec.vertex) = 1
                    /\ flow_type[rec.vertex] = "WindkesselOutflow"
               /\ Cardinality(flux(written'[rank]))
                    = Cardinality({w \in written'[rank] : w[1] # "bv"})
    ]_vars

\* A worker has completed init with an active bifurcation and an active
\* leaf, each with flux entries written in this call.
JunctionAndLeafResolvedInOneInit ==
  \E rank \in Ranks :
    /\ pc[rank] = "done"
    /\ \E v1, v2 \in get_active_vertex_ids(rank) :
         /\ is_bifurcation(v1)
         /\ is_leaf(v2)
         /\ \E w \in written[rank] : w[1] # "bv" /\ w[3] = v1
         /\ \E w \in written[rank] : w[1] # "bv" /\ w[3] = v2

\* C26: at a Windkessel leaf v of edge e a completed init has stored, as e's
\* right flux when e points to v and as e's left flux otherwise, the pair
\* (Q_out, A_out) of a Newton solve whose residual is that of f with the
\* invariant W2 of the measured (Q, A) when e points to v and W1 otherwise,
\* and Q_out = +(p(A_out) - p_c)/R1 when e points to v, -(p(A_out) - p_c)/R1
\* otherwise; the resolution of v does not write the flux at the other end
\* of e, which changes in the leaf loop only if the vertex at that end is
\* an active leaf itself.
WindkesselFollowsOrientation ==
  /\ [](\A rank \in Ranks :
          pc[rank] = "done" =>
            \A v \in get_active_vertex_ids(rank) :
              (is_leaf(v) /\ is_windkessel_outflow(v)) =>
                LET e == get_edge_neighbors(v)[1]
                    in == is_pointing_to(e, v)
                    Q == d_Q_macro_edge_boundary_value[rank][
                           IF in THEN 2 * e + 1 ELSE 2 * e]
                    A == d_A_macro_edge_boundary_value[rank][
                           IF in THEN 2 * e + 1 ELSE 2 * e]
                    p_c == u_now[vertex_dof_indices(v)[1]]
                    W == IF in THEN calculate_W2_value(Q, A, PhysicalData)
                         ELSE calculate_W1_value(Q, A, PhysicalData)
                    Q_out == IF in THEN d_Q_macro_edge_flux_r[rank][e]
                             ELSE d_Q_macro_edge_flux_l[rank][e]
                    A_out == IF in THEN d_A_macro_edge_flux_r[rank][e]
                             ELSE d_A_macro_edge_flux_l[rank][e]
                    p == calculate_static_p(A_out, PhysicalData.G0,
                                            PhysicalData.A0)
                    residual == WkF(A_out, W, p_c, PhysicalData)
                IN /\ \E rec \in wk_log :
                        /\ rec.vertex = v /\ rec.Q = Q /\ rec.A = A
                        /\ rec.p_c = p_c /\ rec.is_in = in
                        /\ rec.A_out = A_out /\ rec.Q_out = Q_out
                        /\ rec.error = IF IsNaN(residual) THEN NaN
                                       ELSE Abs(residual)
                   /\ ~IsNaN(p) =>
                        Q_out = IF in THEN Div(p - p_c, Resistance(PhysicalData))
                                ELSE -Div(p - p_c, Resistance(PhysicalData))
                   /\ <<IF in THEN "flux_r" ELSE "flux_l", e, v>>
                        \in written[rank]
                   /\ <<IF in THEN "flux_l" ELSE "flux_r", e, v>>
                        \notin written[rank])
  /\ [][\A rank \in Ranks :
          (pc[rank] = "inout" /\ pc'[rank] = "done") =>
            \A v \in get_active_vertex_ids(rank) :
              (is_leaf(v) /\ is_windkessel_outflow(v)) =>
                LET e == get_edge_neighbors(v)[1]
                    in == is_pointing_to(e, v)
                    other == get_vertex_neighbors(e)[IF in THEN 1 ELSE 2]
                IN (other \notin get_active_vertex_ids(rank) \/ ~is_leaf(other))
                     => IF in
                        THEN /\ d_Q_macro_edge_flux_l'[rank][e]
                                  = d_Q_macro_edge_flux_l[rank][e]
                             /\ d_A_macro_edge_flux_l'[rank][e]
                                  = d_A_macro_edge_flux_l[rank][e]
                        ELSE /\ d_Q_macro_edge_flux_r'[rank][e]
                                  = d_Q_macro_edge_flux_r[rank][e]
                             /\ d_A_macro_edge_flux_r'[rank][e]
                                  = d_A_macro_edge_flux_r[rank][e]
       ]_vars

\* Windkessel leaves of both orientations have been resolved with a
\* non-zero outflow.
WindkesselResolvedBothOrientations ==
  \E r1, r2 \in Ranks :
    /\ pc[r1] = "done"
    /\ pc[r2] = "done"
    /\ \E v1 \in get_active_vertex_ids(r1), v2 \in get_active_vertex_ids(r2) :
         /\ is_leaf(v1) /\ is_windkessel_outflow(v1)
         /\ is_leaf(v2) /\ is_windkessel_outflow(v2)
         /\ is_pointing_to(get_edge_neighbors(v1)[1], v1)
         /\ ~is_pointing_to(get_edge_neighbors(v2)[1], v2)
         /\ d_Q_macro_edge_flux_r[r1][get_edge_neighbors(v1)[1]] # 0
         /\ d_Q_macro_edge_flux_l[r2][get_edge_neighbors(v2)[1]] # 0

\* C27: a call of get_fluxes_on_macro_edge or get_fluxes_on_nfurcation,
\* successful or not, leaves the boundary-value buffers, the four flux
\* caches and the stored time of every evaluator unchanged; after
\* construction these change only in a step of an init call.
AccessorsReadOnly ==
  [][/\ (ret.op = "none" /\ ret'.op # "none") =>
          evaluator_vars' = evaluator_vars
     /\ (num_ranks > 0 /\ evaluator_vars' # evaluator_vars) =>
          \E rank \in Ranks :
            /\ pc[rank] \in {"extract", "ghostQ", "ghostA", "nfurcation",
                             "inout"}
            /\ pc'[rank] # pc[rank]
    ]_vars

\* A successful call of get_fluxes_on_macro_edge has returned a resolved,
\* non-zero end flux from the cache.
MacroEdgeFluxesReadFromCache ==
  /\ ret.op = "get_fluxes_on_macro_edge"
  /\ ~ret.out.error
  /\ ret.out.Q_up[0] # 0
  /\ ret.out.Q_up[0] = d_Q_macro_edge_flux_l[ret.rank][ret.id]

\* C29: on a freshly constructed evaluator (no init call yet) the stored
\* time is not a number and the caches are zero, and every call of
\* get_fluxes_on_macro_edge or get_fluxes_on_nfurcation fails and returns
\* no value, for every time argument, a not-a-number argument included.
FreshEvaluatorRejectsAccessors ==
  \A rank \in Ranks :
    pc[rank] = "ready" =>
      /\ IsNaN(d_current_t[rank])
      /\ \A e \in EdgeIds :
           /\ d_Q_macro_edge_flux_l[rank][e] = 0
           /\ d_Q_macro_edge_flux_r[rank][e] = 0
           /\ d_A_macro_edge_flux_l[rank][e] = 0
           /\ d_A_macro_edge_flux_r[rank][e] = 0
      /\ (ret.op # "none" /\ ret.rank = rank) =>
           /\ ret.out.error
           /\ ret.out.Q_up = << >>
           /\ ret.out.A_up = << >>

\* An accessor has been called on a fresh evaluator with a not-a-number
\* time argument, and has failed.
FreshEvaluatorAskedForNaN ==
  /\ ret.op # "none"
  /\ pc[ret.rank] = "ready"
  /\ IsNaN(ret.t)
  /\ ret.out.error

\* C28: after setup_1d3d with n outlets, get_vessel_tip_data_3d returns n
\* entries, entry i holding the coefficients a and b and the weighted 3D
\* pressure and nutrient values of outlet i.
TipData3dHasEntryPerOutlet ==
  (solver_3d.status = "running" /\ solver_3d.data_3d.called) =>
    /\ Len(solver_3d.data_3d.data) = solver_3d.num_perf_outlets
    /\ \A i \in 1..solver_3d.num_perf_outlets :
         solver_3d.data_3d.data[i] = TipData3D(solver_3d, i)

\* C30: after any sequence of setup_1d3d and update_1d_data calls, every
\* per-outlet container has as many entries as the list of the most recent
\* setup_1d3d call.
OutletContainersAgree ==
  (solver_3d.status = "running" /\ solver_3d.num_setups > 0) =>
    \A len \in {Len(solver_3d.d_perf_pts), Len(solver_3d.d_perf_radii),
                Len(solver_3d.d_perf_pres), Len(solver_3d.d_perf_ball_radii),
                Len(solver_3d.d_perf_fns), Len(solver_3d.d_perf_elems_3D),
                Len(solver_3d.d_perf_coeff_a), Len(solver_3d.d_perf_coeff_b),
                Len(solver_3d.d_perf_p_3d_weighted)} :
      len = solver_3d.num_perf_outlets

=============================================================================
